---- MODULE Spec2Model ----
(***************************************************************************)
(* Model of the home-manager scheduler service (src/src/scheduler.py):     *)
(* the power usage sliding window, the task lists of the Scheduler, the    *)
(* eviction and admission sweeps of Scheduler.schedule(), sanitize(), the  *)
(* pause/resume controls and the main loop with its stale-record fallback. *)
(*                                                                         *)
(* Powers are integers in units of 0.05 kW, so that every division the     *)
(* code performs on the modelled values (power / len(keys)) is exact.  A   *)
(* ratio, which the code computes as a float quotient, is kept as the pair *)
(* <<numerator, denominator>> and compared by cross multiplication.        *)
(***************************************************************************)
EXTENDS Integers, Sequences, FiniteSets, TLC

VARIABLES
    uris,              \* Scheduler.uris: registered tasks, in registration order
    task,              \* what each remote task answers during the current cycle
    failing,           \* the remote task whose calls raise, <<>> when none
    window,            \* PowerUsageSlidingWindow.window, oldest record first
    is_on_pause,       \* Scheduler._is_on_pause
    paused_locally,    \* main(): paused_locally
    sensor_latest,     \* SensorReader('power').latest_read, as minutes elapsed
    simulator_latest,  \* SensorReader('power_simulator').latest_read, idem
    crashed,           \* an exception left main(): my_excepthook killed the process
    call,              \* Scheduler.cache and the position of the schedule()
                       \* call in progress, where its duration is modelled
    outage,            \* history: the cycles without any record, in a row,
                       \* whether the loop paused the scheduler since the last
                       \* record, and who set the pause in effect
    car_charger,       \* car_charger.py: the CarChargerTask process
    water_heater,      \* water_heater.py: the WaterHeater process
    pool_pump,         \* pool_pump.py: the PoolPump process
    hvac,              \* hvac.py: the HVACTask process, or its HVACParam thread
    last               \* history: what the last step did (calls issued, ...)

\* the task processes, each one the subject of a specification of its own
devices == <<car_charger, water_heater, pool_pump, hvac>>

\* the scheduler process
scheduler == <<uris, task, failing, window, is_on_pause, paused_locally,
               sensor_latest, simulator_latest, crashed, call, outage>>

vars == <<scheduler, devices, last>>

----------------------------------------------------------------------------
(* Bounds and program constants *)

\* Capacity of the sliding window (settings.window_size, 12 by default).
WindowSize == 2

\* settings.max_record_gap, in minutes (one cycle per minute).
MaxRecordGap == 3

\* settings.ignore_power_threshold: 0.1 kW in units of 0.05 kW.
IgnorePowerThreshold == 2

\* Priority(IntEnum)
LOW == 1
MEDIUM == 2
HIGH == 3
URGENT == 4

None == "None"

----------------------------------------------------------------------------
(* Sequence helpers (Python list operations) *)

Range(s) == {s[i] : i \in 1..Len(s)}

\* x in list
InSeq(x, s) == \E i \in 1..Len(s) : s[i] = x

\* list.remove(x) for an x that is in the list: drops the first occurrence
Remove(s, x) ==
    LET i == CHOOSE j \in 1..Len(s) : s[j] = x /\ \A k \in 1..(j-1) : s[k] # x
    IN SubSeq(s, 1, i-1) \o SubSeq(s, i+1, Len(s))

RECURSIVE SumSeq(_)
SumSeq(s) == IF s = <<>> THEN 0 ELSE Head(s) + SumSeq(Tail(s))

Max(a, b) == IF a >= b THEN a ELSE b

----------------------------------------------------------------------------
(* The registered loads.  Three remote tasks are modelled: the adjustable  *)
(* car charger, the HVAC (two sub-metered channels) and a third load whose *)
(* channel list is a configuration choice: its own channel, the charger's  *)
(* channel (identical key lists) or one of the HVAC channels (overlap).    *)

Tasks == {"charger", "hvac", "load"}

\* Task.power: largest minimal power to start and run the appliance
\* (1.4 kW for the charger, 2 kW for the HVAC)
power(t) == CASE t = "charger" -> 28
              [] t = "hvac"    -> 40
              [] t = "load"    -> task[t].power

\* Task.auto_adjust
auto_adjust(t) == t = "charger"

\* the configurations of the third load: its own channel and the power of
\* the HVAC, the charger's channel, or one of the two HVAC channels
LoadConfigs == {[keys |-> <<"pool">>, power |-> 40],
                [keys |-> <<"EV">>, power |-> 20],
                [keys |-> <<"air handler">>, power |-> 20]}

\* Task.keys
keys(t) == task[t].keys

priority(t) == task[t].priority

is_runnable(t) == task[t].runnable

is_running(t) == task[t].running

is_stoppable(t) == task[t].stoppable


\* Task.meet_running_criteria(ratio, power): the task's own acceptance
\* predicate, with the usual hysteresis: a running task keeps running from
\* a ratio of 0.9, a task that is not running needs 1.
RatioGE(ratio, tenths) == ratio[1] * 10 >= tenths * ratio[2]

meet_running_criteria(t, ratio, pwr) ==
    IF is_running(t) THEN RatioGE(ratio, 9) ELSE RatioGE(ratio, 10)

\* a comparison that ranks the first task higher on a full tie
compare_task_tie_wins(t1, t2) ==
    IF priority(t1) > priority(t2) THEN 1
    ELSE IF priority(t1) < priority(t2) THEN -1
    ELSE IF auto_adjust(t1) /\ ~auto_adjust(t2) THEN 1
    ELSE IF ~auto_adjust(t1) /\ auto_adjust(t2) THEN -1
    ELSE IF power(t2) > power(t1) THEN -1 ELSE 1

\* compare_task(task1, task2): -1, 0 or 1
compare_task(t1, t2) ==
    IF priority(t1) > priority(t2) THEN 1
    ELSE IF priority(t1) < priority(t2) THEN -1
    ELSE IF auto_adjust(t1) /\ ~auto_adjust(t2) THEN 1
    ELSE IF ~auto_adjust(t1) /\ auto_adjust(t2) THEN -1
    ELSE IF power(t1) > power(t2) THEN 1
    ELSE IF power(t2) > power(t1) THEN -1 ELSE 0

\* sorted() is stable: x stays behind e when the order does not put it before.
\* "asc": key=cmp_to_key(compare_task); "desc": the same with reverse=True;
\* "priority": key=lambda task: task.priority
StaysAfter(e, x, order) ==
    CASE order = "asc"      -> compare_task(e, x) <= 0
      [] order = "desc"     -> compare_task(e, x) >= 0
      [] order = "priority" -> priority(e) <= priority(x)

RECURSIVE InsertSorted(_, _, _)
InsertSorted(s, x, order) ==
    IF s = <<>> THEN <<x>>
    ELSE IF StaysAfter(s[Len(s)], x, order) THEN Append(s, x)
    ELSE Append(InsertSorted(SubSeq(s, 1, Len(s)-1), x, order), s[Len(s)])

RECURSIVE Sorted(_, _)
Sorted(s, order) ==
    IF s = <<>> THEN <<>>
    ELSE InsertSorted(Sorted(SubSeq(s, 1, Len(s)-1), order), s[Len(s)], order)

----------------------------------------------------------------------------
(* PowerUsageSlidingWindow.  A record is a function from channel names to  *)
(* power values; 'net' is mandatory.                                       *)

\* an ingestion that keeps every value as reported
Squash_nothing(record) == record

\* PowerUsageSlidingWindow.update(record): noise squash, then append to the
\* deque of capacity WindowSize (the oldest record falls out)
Squash(record) ==
    [k \in DOMAIN record |->
        IF 0 < record[k] /\ record[k] < IgnorePowerThreshold THEN 0
        ELSE record[k]]

update(w, record) ==
    LET full == Append(w, Squash(record))
    IN IF Len(full) > WindowSize THEN Tail(full) ELSE full

\* PowerUsageSlidingWindow.__usage(record, keys), Task.usage(record)
RECURSIVE usage(_, _)
usage(record, ks) ==
    IF ks = <<>> THEN 0
    ELSE (IF Head(ks) \in DOMAIN record THEN record[Head(ks)] ELSE 0)
         + usage(record, Tail(ks))

\* PowerUsageSlidingWindow.__set_usage(record, keys, usage)
set_usage(record, ks, u) ==
    [k \in DOMAIN record \cup Range(ks) |->
        IF k \in Range(ks) THEN u \div Len(ks) ELSE record[k]]

\* PowerUsageSlidingWindow.__minimize(task, record)
minimize(t, record) ==
    LET r1 == [record EXCEPT !["net"] = @ - usage(record, keys(t))]
        r2 == set_usage(r1, keys(t), power(t))
    IN [r2 EXCEPT !["net"] = @ + power(t)]

\* a suppression that clears the channels of the task and leaves net alone
suppress_keeping_net(t, record) == set_usage(record, keys(t), 0)

\* PowerUsageSlidingWindow.__suppress(task, record)
suppress(t, record) ==
    LET r1 == [record EXCEPT !["net"] = @ - usage(record, keys(t))]
    IN set_usage(r1, keys(t), 0)

RECURSIVE MinimizeAll(_, _)
MinimizeAll(ts, record) ==
    IF ts = <<>> THEN record
    ELSE MinimizeAll(Tail(ts), minimize(Head(ts), record))

RECURSIVE SuppressAll(_, _)
SuppressAll(ts, record) ==
    IF ts = <<>> THEN record
    ELSE SuppressAll(Tail(ts), suppress(Head(ts), record))

\* PowerUsageSlidingWindow.power_used_by(task)
power_used_by(w, t) == usage(w[Len(w)], keys(t))

\* PowerUsageSlidingWindow.available_for(task, minimum, ignore):
\* max(0, -record['net'] / task.power) as <<numerator, denominator>>
\* A division by zero raises ZeroDivisionError.
ZeroDivisionError == <<"ZeroDivisionError">>

available_for(w, t, minimum, ignore) ==
    LET record == SuppressAll(ignore, MinimizeAll(minimum, w[Len(w)]))
    IN IF power(t) = 0 THEN ZeroDivisionError
       ELSE <<Max(0, -record["net"]), power(t)>>

\* __reducer of PowerUsageSlidingWindow.__reducer_generator(minimize, ignore):
\* the tasks drawing power in the record are rewritten, then every channel
\* of the record is added to the accumulator
RECURSIVE MinimizeUsing(_, _)
MinimizeUsing(ts, record) ==
    IF ts = <<>> THEN record
    ELSE MinimizeUsing(Tail(ts),
                       IF usage(record, keys(Head(ts))) > 0
                       THEN minimize(Head(ts), record) ELSE record)

reducer(accumulator, record, minimized) ==
    LET r == MinimizeUsing(minimized, record)
    IN [k \in DOMAIN accumulator \cup DOMAIN r |->
           (IF k \in DOMAIN accumulator THEN accumulator[k] ELSE 0)
           + (IF k \in DOMAIN r THEN r[k] ELSE 0)]

\* the records covered_by_production() reduces: a copy of the latest one,
\* then the records from the latest backwards while the task draws power
RECURSIVE TailWhileUsing(_, _, _)
TailWhileUsing(w, i, ks) ==
    IF i = 0 \/ usage(w[i], ks) = 0 THEN <<>>
    ELSE <<w[i]>> \o TailWhileUsing(w, i - 1, ks)

RECURSIVE Reduce(_, _, _)
Reduce(records, accumulator, minimized) ==
    IF records = <<>> THEN accumulator
    ELSE Reduce(Tail(records), reducer(accumulator, Head(records), minimized),
                minimized)

\* PowerUsageSlidingWindow.covered_by_production(task, minimize)
covered_by_production(w, t, minimized) ==
    IF usage(w[Len(w)], keys(t)) = 0 THEN <<1, 1>>
    ELSE LET running == <<w[Len(w)]>> \o TailWhileUsing(w, Len(w), keys(t))
             acc0    == [k \in DOMAIN running[1] |-> 0]
             used    == Reduce(running, acc0, minimized)
             total   == usage(used, keys(t))
         IN IF total = 0 THEN ZeroDivisionError
            ELSE <<Max(0, -(used["net"] - total)), total>>

\* The records of the window are dictionaries, which __minimize() and
\* __suppress() write in place.  A query works on `record = stored.copy()`:
\* stored is the record of the window and written is what the query made of
\* its copy; the record of the window after the query is stored.
after_copy_aliasing(stored, written) == written

after_copy(stored, written) == stored

\* the window after power_used_by(task), which only reads the latest record
window_after_power_used_by(w, t) == w

\* the window after available_for(task, minimum, ignore)
window_after_available_for(w, t, minimum, ignore) ==
    [w EXCEPT ![Len(w)] =
        after_copy(@, SuppressAll(ignore, MinimizeAll(minimum, @)))]

\* the window after covered_by_production(task, minimize): the reducer
\* copies each record of the window it is given before rewriting it
window_after_covered_by_production(w, t, minimized) ==
    IF usage(w[Len(w)], keys(t)) = 0 THEN w
    ELSE LET reduced == Len(TailWhileUsing(w, Len(w), keys(t)))
         IN [i \in 1..Len(w) |->
                IF i > Len(w) - reduced
                THEN after_copy(w[i], MinimizeUsing(minimized, w[i]))
                ELSE w[i]]

----------------------------------------------------------------------------
(* Scheduler: the derived task lists.  U is Scheduler.uris.                *)

\* How the failing task fails:
\*   "down"        unreachable during the whole cycle (CommunicationError)
\*   "dies"        answers until sanitize() is over, unreachable afterwards
\*   "is_running"  its is_running() raises RuntimeError, the rest answers
\*   "call"        it answers every query, its start() and stop() calls raise
\*                 CommunicationError
\* is_running() of task t raises when the running list is built
QueryFails(t, during) ==
    /\ failing.task = t
    /\ \/ failing.mode \in {"down", "is_running"}
       \/ failing.mode = "dies" /\ during = "schedule"

QueryError == IF failing.mode = "is_running" THEN "RuntimeError"
              ELSE "CommunicationError"

\* the one-way start() or stop() call of task t raises
CallFails(t) == failing.task = t

\* Scheduler.runnable
runnable(U) == SelectSeq(U, is_runnable)

\* Scheduler.running: sorted by ascending order of importance
running(U) == Sorted(SelectSeq(U, is_running), "asc")

\* Scheduler.adjustable
adjustable(run) == SelectSeq(run, auto_adjust)

\* Scheduler.stopped: sorted by descending order of importance
stopped(U) ==
    LET run == running(U)
    IN Sorted(SelectSeq(runnable(U), LAMBDA t : ~InSeq(t, run)), "desc")

----------------------------------------------------------------------------
(* Scheduler: the four finders of the eviction sweep.                      *)

\* Scheduler.__find_conflicting_power_keys
RECURSIVE ConflictingFrom(_, _)
ConflictingFrom(run, i) ==
    IF i > Len(run) THEN <<>>
    ELSE Tail(SelectSeq(run, LAMBDA t : keys(t) = keys(run[i])))
         \o ConflictingFrom(run, i + 1)

find_conflicting_power_keys(run) == ConflictingFrom(run, 1)

\* Scheduler.__find_failing_criteria
RECURSIVE FirstFailing(_, _, _)
FirstFailing(w, ts, adj) ==
    IF ts = <<>> THEN <<>>
    ELSE LET t     == Head(ts)
             ratio == covered_by_production(w, t, adj)
             pwr   == power_used_by(w, t)
         IN IF ~meet_running_criteria(t, ratio, pwr) /\ is_stoppable(t)
            THEN <<t>>
            ELSE FirstFailing(w, Tail(ts), adj)

\* a finder that examines the most important running tasks first
find_failing_criteria_downwards(w, run, adj) ==
    FirstFailing(w, Sorted(run, "desc"), adj)

find_failing_criteria(w, run, adj) ==
    FirstFailing(w, Sorted(run, "priority"), adj)

\* Scheduler.__find_dimishing_adjustable
MaxPriority(ts) ==
    CHOOSE p \in {priority(t) : t \in Range(ts)} :
        \A t \in Range(ts) : priority(t) <= p

\* a finder that returns the most important of the diminishing tasks
find_dimishing_adjustable_topmost(run, adj) ==
    IF Len(run) <= 1 \/ adj = <<>> THEN <<>>
    ELSE LET min_priority == MaxPriority(adj)
             found == SelectSeq(SelectSeq(run, is_stoppable),
                                LAMBDA t : ~auto_adjust(t)
                                           /\ priority(t) < min_priority)
         IN IF found = <<>> THEN <<>> ELSE <<found[Len(found)]>>

find_dimishing_adjustable(run, adj) ==
    IF Len(run) <= 1 \/ adj = <<>> THEN <<>>
    ELSE LET min_priority == MaxPriority(adj)
             found == SelectSeq(SelectSeq(run, is_stoppable),
                                LAMBDA t : ~auto_adjust(t)
                                           /\ priority(t) < min_priority)
         IN IF found = <<>> THEN <<>> ELSE <<Head(found)>>

\* Scheduler.__find_lower_priority_tasks
RECURSIVE LowerPriorityFor(_, _, _, _)
LowerPriorityFor(w, run, stp, adj) ==
    IF stp = <<>> THEN <<>>
    ELSE LET t == Head(stp)
             challengers == SelectSeq(run, LAMBDA c : compare_task(t, c) > 0
                                                      /\ is_stoppable(c))
             minimum == SelectSeq(adj, LAMBDA a : ~InSeq(a, challengers))
         IN IF challengers # <<>>
               /\ meet_running_criteria(
                      t, available_for(w, t, minimum, challengers), 0)
            THEN challengers
            ELSE LowerPriorityFor(w, run, Tail(stp), adj)

find_lower_priority_tasks(w, run, stp, adj) ==
    LowerPriorityFor(w, run, stp, adj)

----------------------------------------------------------------------------
(* Scheduler: admission.                                                   *)

\* eligible of Scheduler.__elect_task: the stopped tasks whose key list is
\* not the key list of a running task
eligible_tasks(run, stp) ==
    SelectSeq(stp, LAMBDA t : \A i \in 1..Len(run) : keys(t) # keys(run[i]))

\* a priority test that takes the mean priority to be 0, as if nothing ran
AtLeastMeanPriority_of_none(t, run) == priority(t) >= 0

\* task.priority >= mean([t.priority for t in self.running]), 0 if none runs
AtLeastMeanPriority(t, run) ==
    IF run = <<>> THEN priority(t) >= 0
    ELSE priority(t) * Len(run) >= SumSeq([i \in 1..Len(run) |-> priority(run[i])])

\* an admission that hands the task the power available while the other
\* eligible tasks are still counted as consumers
elect_ratio_counting_eligible(w, run, eligible, t) ==
    available_for(w, t, run, <<>>)

\* Scheduler.__elect_task: the ratio handed to the candidate's
\* meet_running_criteria()
elect_ratio(w, run, eligible, t) ==
    available_for(w, t, run, eligible)

\* an admission that does not ask the task whether it is runnable
electable_unasked(t, ratio, run) ==
    /\ meet_running_criteria(t, ratio, 0)
    /\ (AtLeastMeanPriority(t, run) \/ auto_adjust(t))

\* Scheduler.__elect_task: the condition under which the candidate is elected
electable(t, ratio, run) ==
    /\ meet_running_criteria(t, ratio, 0)
    /\ is_runnable(t)
    /\ (AtLeastMeanPriority(t, run) \/ auto_adjust(t))

\* Scheduler.__elect_task: <<>> for None, else <<[task, ratio, ...]>> where
\* ratio is the value handed to the task's meet_running_criteria()
RECURSIVE ElectFrom(_, _, _, _)
ElectFrom(w, run, eligible, ts) ==
    IF ts = <<>> THEN <<>>
    ELSE LET t     == Head(ts)
             ratio == elect_ratio(w, run, eligible, t)
         IN IF electable(t, ratio, run)
            THEN <<[task |-> t, ratio |-> ratio,
                    eligible |-> eligible, running |-> run]>>
            ELSE ElectFrom(w, run, eligible, Tail(ts))

elect_task(w, run, stp) ==
    LET eligible == eligible_tasks(run, stp)
    IN ElectFrom(w, run, eligible, eligible)

----------------------------------------------------------------------------
(* Scheduler.schedule().  The state of one call is the record sch:         *)
(*   running, stopped  the cached lists, as the sweeps update them         *)
(*   calls             the start() and stop() calls issued so far          *)
(*   rule              the eviction rule that acted: "a".."d", or "none"   *)
(*   exc               the exception that ended the call, "none" if none   *)

\* the loop `for task in tasks_to_stop` of Scheduler.schedule
RECURSIVE StopTasks(_, _)
StopTasks(victims, sch) ==
    IF victims = <<>> THEN sch
    ELSE LET t == Head(victims)
         IN IF CallFails(t)
            THEN [sch EXCEPT !.exc = "CommunicationError"]
            ELSE LET called == Append(sch.calls, [op |-> "stop", task |-> t])
                 IN IF ~InSeq(t, sch.running)
                    THEN [sch EXCEPT !.calls = called, !.exc = "ValueError"]
                    ELSE StopTasks(Tail(victims),
                                   [sch EXCEPT !.calls = called,
                                               !.running = Remove(@, t),
                                               !.stopped = Append(@, t)])

\* an eviction sweep that tries the finders from the last one to the first
EvictionSweep_backwards(w, sch) ==
    LET run == sch.running
        stp == sch.stopped
        adj == adjustable(run)
        a == find_conflicting_power_keys(run)
        b == find_failing_criteria(w, run, adj)
        c == find_dimishing_adjustable(run, adj)
        d == find_lower_priority_tasks(w, run, stp, adj)
    IN IF run = <<>> THEN sch
       ELSE IF d # <<>> THEN StopTasks(d, [sch EXCEPT !.rule = "d"])
       ELSE IF c # <<>> THEN StopTasks(c, [sch EXCEPT !.rule = "c"])
       ELSE IF b # <<>> THEN StopTasks(b, [sch EXCEPT !.rule = "b"])
       ELSE IF a # <<>> THEN StopTasks(a, [sch EXCEPT !.rule = "a"])
       ELSE sch

\* the eviction sweep of Scheduler.schedule: the first finder that returns
\* tasks decides
EvictionSweep(w, sch) ==
    LET run == sch.running
        stp == sch.stopped
        adj == adjustable(run)
        a == find_conflicting_power_keys(run)
        b == find_failing_criteria(w, run, adj)
        c == find_dimishing_adjustable(run, adj)
        d == find_lower_priority_tasks(w, run, stp, adj)
    IN IF run = <<>> THEN sch
       ELSE IF a # <<>> THEN StopTasks(a, [sch EXCEPT !.rule = "a"])
       ELSE IF b # <<>> THEN StopTasks(b, [sch EXCEPT !.rule = "b"])
       ELSE IF c # <<>> THEN StopTasks(c, [sch EXCEPT !.rule = "c"])
       ELSE IF d # <<>> THEN StopTasks(d, [sch EXCEPT !.rule = "d"])
       ELSE sch

\* the admission sweep of Scheduler.schedule: `while True` until no task is
\* elected
RECURSIVE AdmissionSweep(_, _)
AdmissionSweep(w, sch) ==
    LET elected == elect_task(w, sch.running, sch.stopped)
    IN IF elected = <<>> THEN sch
       ELSE LET e == elected[1]
            IN IF CallFails(e.task)
               THEN [sch EXCEPT !.exc = "CommunicationError"]
               ELSE AdmissionSweep(w,
                        [sch EXCEPT
                            !.calls = Append(@, [op |-> "start",
                                                 task |-> e.task,
                                                 ratio |-> e.ratio,
                                                 eligible |-> e.eligible,
                                                 running |-> e.running]),
                            !.stopped = Remove(@, e.task),
                            !.running = Append(@, e.task)])

\* what schedule() leaves when it returns at once (pause) or is not called
NotScheduled == [running |-> <<>>, stopped |-> <<>>, calls |-> <<>>,
                 rule |-> "none", exc |-> "none"]

\* Scheduler.schedule() when the scheduler is not on pause
schedule(U, w) ==
    LET none == NotScheduled
    IN IF \E t \in Range(U) : QueryFails(t, "schedule")
       THEN [none EXCEPT !.exc = QueryError]
       ELSE LET swept == EvictionSweep(w, [none EXCEPT
                                              !.running = running(U),
                                              !.stopped = stopped(U)])
            IN IF swept.exc # "none" THEN swept
               ELSE AdmissionSweep(w, swept)

\* a schedule() that does not look at the pause flag
schedule_despite_pause(paused, U, w) == schedule(U, w)

\* Scheduler.schedule(): it returns at once when the scheduler is on pause
schedule_or_return(paused, U, w) ==
    IF paused THEN NotScheduled ELSE schedule(U, w)

----------------------------------------------------------------------------
(* Scheduler.cache: TTLCache(5, timedelta(seconds=15)).  Time is counted   *)
(* in units of 5 seconds.  An entry holds the age of the value and the     *)
(* value, a list of tasks; an entry whose age is Missing is not in the     *)
(* cache.  A state st of a call holds the cache and, as history, how many  *)
(* times each key was computed, the tasks started since the call began,   *)
(* the passes of the admission sweep and the number of stopped tasks its   *)
(* first pass read.                                                        *)

\* the keys of Scheduler.cache
Keys == {"tasks", "runnable", "running", "adjustable", "stopped"}

\* the lifetime of an entry: 15 seconds
TTL == 3

Missing == -1

\* self.cache.clear()
Cleared == [k \in Keys |-> [age |-> Missing, value |-> <<>>]]

\* no call of schedule() is in progress
NoCall == [pc |-> "idle", cache |-> Cleared,
           computed |-> [k \in Keys |-> 0], todo |-> <<>>,
           started |-> <<>>, running |-> <<>>, stopped |-> <<>>,
           passes |-> 0, candidates |-> Missing, exc |-> "none"]

\* the TTLCache returns the value of a key while its lifetime is not over
Cached(st, key) ==
    st.cache[key].age # Missing /\ st.cache[key].age < TTL

Value(st, key) == st.cache[key].value

\* Scheduler.__cache, on a miss: self.cache[key] = fun()
Store(st, key, value) ==
    [st EXCEPT !.cache[key] = [age |-> 0, value |-> value],
               !.computed[key] = IF @ < 2 THEN @ + 1 ELSE @]

\* Scheduler.tasks
get_tasks(st) ==
    IF Cached(st, "tasks") THEN st ELSE Store(st, "tasks", uris)

\* Scheduler.runnable
get_runnable(st) ==
    IF Cached(st, "runnable") THEN st
    ELSE LET s1 == get_tasks(st)
         IN Store(s1, "runnable", runnable(Value(s1, "tasks")))

\* Scheduler.running
get_running(st) ==
    IF Cached(st, "running") THEN st
    ELSE LET s1 == get_tasks(st)
         IN Store(s1, "running", running(Value(s1, "tasks")))

\* Scheduler.adjustable
get_adjustable(st) ==
    IF Cached(st, "adjustable") THEN st
    ELSE LET s1 == get_running(st)
         IN Store(s1, "adjustable", adjustable(Value(s1, "running")))

\* Scheduler.stopped
get_stopped(st) ==
    IF Cached(st, "stopped") THEN st
    ELSE LET s1 == get_runnable(st)
             s2 == get_running(s1)
             run == Value(s2, "running")
         IN Store(s2, "stopped",
                  Sorted(SelectSeq(Value(s2, "runnable"),
                                   LAMBDA t : ~InSeq(t, run)), "desc"))

----------------------------------------------------------------------------
(* The environment: power records and the answers of the remote tasks.     *)

\* nothing runs, 4 kW exported
Sunny == [net |-> -80, solar |-> -80, EV |-> 0, pool |-> 0]
         @@ ("A/C" :> 0) @@ ("air handler" :> 0)

\* the charger draws 1.4 kW, 0.1 kW imported, some noise on the pool channel
Veiled == [net |-> 2, solar |-> -27, EV |-> 28, pool |-> 1]
          @@ ("A/C" :> 0) @@ ("air handler" :> 0)

\* charger, HVAC and pool draw power, 0.6 kW imported; no 'pool' channel
Cloudy == [net |-> 12, solar |-> -56, EV |-> 28]
          @@ ("A/C" :> 20) @@ ("air handler" :> 20)

Records == {Sunny, Veiled, Cloudy}

\* the priorities of a task: LOW or HIGH, and MEDIUM too for the third load
Priorities == {LOW, MEDIUM, HIGH}

TaskPriorities(t) == IF t = "load" THEN Priorities ELSE {LOW, HIGH}

\* the configurations of a task: its key list and its power
Configs(t) == CASE t = "charger" -> {[keys |-> <<"EV">>, power |-> 28]}
                [] t = "hvac"    -> {[keys |-> <<"A/C", "air handler">>,
                                      power |-> 40]}
                [] t = "load"    -> LoadConfigs

\* the answers of one task; is_stoppable() only matters while it runs
Answer(s, c) == [priority |-> s.priority, runnable |-> s.runnable,
                 running |-> s.running, stoppable |-> s.stoppable,
                 keys |-> c.keys, power |-> c.power]

Status == {s \in [priority : Priorities, runnable : BOOLEAN,
                  running : BOOLEAN, stoppable : BOOLEAN] :
              ~s.running => s.stoppable}

TaskAnswers(t) ==
    {Answer(s, c) : s \in {x \in Status : x.priority \in TaskPriorities(t)},
                    c \in Configs(t)}

\* a task that is not registered is not queried
Idle(t) == CHOOSE a \in TaskAnswers(t) :
               /\ a.priority = LOW /\ ~a.runnable /\ ~a.running
               /\ (t = "load" => a.keys = <<"pool">>)

\* the answers to consider for task t under the registrations U
Registered(t, U, answers) == IF InSeq(t, U) THEN answers ELSE {Idle(t)}

\* the registrations: the lists of distinct tasks.  The charger, the only
\* auto-adjust task, never compares equal to another task, so that its place
\* in the list is immaterial to the sorted lists: it registers first.
Registrations ==
    {u \in UNION {[1..n -> Tasks] : n \in 0..Cardinality(Tasks)} :
        /\ \A i, j \in 1..Len(u) : i # j => u[i] # u[j]
        /\ \A i \in 1..Len(u) : u[i] = "charger" => i = 1}

\* the windows: one to WindowSize records
Windows == UNION {[1..n -> {Squash(r) : r \in Records}] : n \in 1..WindowSize}

NoFailure == [task |-> None, mode |-> None]

\* the task processes are not part of the specifications of the scheduler
NoDevices ==
    /\ car_charger = None
    /\ water_heater = None
    /\ pool_pump = None
    /\ hvac = None

----------------------------------------------------------------------------
(* SpecSched: one call of Scheduler.schedule() on every registration,      *)
(* every answer of the tasks and every window.                             *)

InitSched ==
    /\ uris \in Registrations
    /\ task \in [charger : Registered("charger", uris, TaskAnswers("charger")),
                  hvac    : Registered("hvac", uris, TaskAnswers("hvac")),
                  load    : Registered("load", uris, TaskAnswers("load"))]
    /\ failing = NoFailure
    /\ window \in Windows
    /\ is_on_pause = FALSE
    /\ paused_locally = FALSE
    /\ sensor_latest = 0
    /\ simulator_latest = -1
    /\ crashed = FALSE
    /\ outage = [cycles |-> 0, paused |-> FALSE, paused_by |-> "none"]
    /\ NoDevices
    /\ call = NoCall
    /\ last = [op |-> "init"]

\* Scheduler.schedule()
Schedule ==
    /\ last.op = "init"
    /\ ~is_on_pause
    /\ last' = [op |-> "schedule", sch |-> schedule(uris, window)]
    /\ UNCHANGED <<devices, call, uris, task, failing, window, is_on_pause, paused_locally,
                   sensor_latest, simulator_latest, crashed, outage>>

NextSched == Schedule

SpecSched == InitSched /\ [][NextSched]_vars

----------------------------------------------------------------------------
(* SpecCache: one call of Scheduler.schedule() whose remote calls take     *)
(* time.  The call is cut at the remote calls: time may pass between two   *)
(* steps, and a task obeys a start() or a stop() or not.  The fields       *)
(* running and stopped of call are history: the two lists as the sweeps    *)
(* updated them, had no entry of the cache expired.                        *)

\* the starts of one call that the model follows
MaxStarts == 3

\* the two tasks of SpecCache
CacheTasks == <<"hvac", "load">>

InitCache ==
    /\ uris = CacheTasks
    /\ task \in [charger : {Idle("charger")},
                  hvac    : TaskAnswers("hvac"),
                  load    : TaskAnswers("load")]
    /\ failing = NoFailure
    /\ window \in {w \in Windows : Len(w) = 1}
    /\ is_on_pause = FALSE
    /\ paused_locally = FALSE
    /\ sensor_latest = 0
    /\ simulator_latest = -1
    /\ crashed = FALSE
    /\ call = NoCall
    /\ outage = [cycles |-> 0, paused |-> FALSE, paused_by |-> "none"]
    /\ NoDevices
    /\ last = [op |-> "init"]

\* Scheduler.schedule(), from its entry to the eviction sweep: the cache is
\* cleared and the debug() calls read the lists
ScheduleEnters ==
    /\ call.pc = "idle"
    /\ ~is_on_pause
    /\ LET s0 == [NoCall EXCEPT !.pc = "evict"]
           s1 == get_tasks(s0)
           s2 == IF Value(s1, "tasks") = <<>> THEN s1
                 ELSE get_stopped(get_running(s1))
       IN call' = [s2 EXCEPT !.running = running(uris),
                             !.stopped = stopped(uris)]
    /\ last' = [op |-> "enter"]
    /\ UNCHANGED <<devices, uris, task, failing, window, is_on_pause,
                   paused_locally, sensor_latest, simulator_latest, crashed,
                   outage>>

\* the finders of the eviction sweep, each reading the lists it needs: the
\* first one that returns tasks decides
Finders(st) ==
    LET s1  == get_running(st)
        run == Value(s1, "running")
        a   == find_conflicting_power_keys(run)
        s2  == get_adjustable(s1)
        adj == Value(s2, "adjustable")
        b   == find_failing_criteria(window, run, adj)
        c   == find_dimishing_adjustable(run, adj)
        s3  == get_stopped(s2)
        d   == find_lower_priority_tasks(window, run, Value(s3, "stopped"), adj)
    IN IF run = <<>> THEN [st |-> s1, victims |-> <<>>]
       ELSE IF a # <<>> THEN [st |-> s1, victims |-> a]
       ELSE IF b # <<>> THEN [st |-> s2, victims |-> b]
       ELSE IF c # <<>> THEN [st |-> s2, victims |-> c]
       ELSE [st |-> s3, victims |-> d]

\* the eviction sweep of Scheduler.schedule(): the victims are found
FindVictims ==
    /\ call.pc = "evict"
    /\ LET found == Finders(call)
       IN call' = [found.st EXCEPT
                      !.todo = found.victims,
                      !.pc = IF found.victims = <<>> THEN "admit" ELSE "stop"]
    /\ last' = [op |-> "find"]
    /\ UNCHANGED <<devices, uris, task, failing, window, is_on_pause,
                   paused_locally, sensor_latest, simulator_latest, crashed,
                   outage>>

\* task.stop(), a one-way call
CallStop ==
    /\ call.pc = "stop"
    /\ \E obeyed \in BOOLEAN :
         task' = [task EXCEPT ![Head(call.todo)].running =
                                  IF obeyed THEN FALSE ELSE @]
    /\ call' = [call EXCEPT !.pc = "evicted"]
    /\ last' = [op |-> "stop", task |-> Head(call.todo)]
    /\ UNCHANGED <<devices, uris, failing, window, is_on_pause,
                   paused_locally, sensor_latest, simulator_latest, crashed,
                   outage>>

\* self.running.remove(task); self.stopped.append(task)
MoveVictim ==
    /\ call.pc = "evicted"
    /\ LET t  == Head(call.todo)
           s1 == get_running(call)
           s2 == [s1 EXCEPT !.cache["running"].value = Remove(@, t)]
           s3 == get_stopped(s2)
       IN call' = IF ~InSeq(t, Value(s1, "running"))
                  THEN [s1 EXCEPT !.pc = "done", !.exc = "ValueError"]
                  ELSE [s3 EXCEPT
                          !.cache["stopped"].value = Append(@, t),
                          !.running = IF InSeq(t, @) THEN Remove(@, t)
                                      ELSE @,
                          !.stopped = Append(@, t),
                          !.todo = Tail(@),
                          !.pc = IF Tail(call.todo) = <<>> THEN "admit"
                                 ELSE "stop"]
    /\ last' = [op |-> "evicted"]
    /\ UNCHANGED <<devices, uris, task, failing, window, is_on_pause,
                   paused_locally, sensor_latest, simulator_latest, crashed,
                   outage>>

\* one pass of the admission sweep: __elect_task() reads the lists, and the
\* task elected is sent start(), a one-way call.  The history keeps the
\* lists read, the task elected and the tasks started before in the call.
Elect ==
    /\ call.pc = "admit"
    /\ LET s1 == get_running(call)
           s2 == get_stopped(s1)
           elected == elect_task(window, Value(s2, "running"),
                                 Value(s2, "stopped"))
       IN /\ Len(call.started) < MaxStarts
          /\ call' = [s2 EXCEPT
                        !.pc = IF elected = <<>> THEN "exit" ELSE "started",
                        !.todo = IF elected = <<>> THEN @
                                 ELSE <<elected[1].task>>,
                        !.started = IF elected = <<>> THEN @
                                    ELSE Append(@, elected[1].task),
                        !.passes = @ + 1,
                        !.candidates = IF @ = Missing
                                       THEN Len(Value(s2, "stopped"))
                                       ELSE @]
          /\ \E obeyed \in BOOLEAN :
               /\ elected = <<>> => obeyed
               /\ task' = IF elected # <<>> /\ obeyed
                          THEN [task EXCEPT ![elected[1].task].running = TRUE]
                          ELSE task
          /\ last' = [op |-> "elect",
                      running |-> Value(s2, "running"),
                      stopped |-> Value(s2, "stopped"),
                      elected |-> IF elected = <<>> THEN <<>>
                                  ELSE <<elected[1].task>>,
                      started |-> call.started]
    /\ UNCHANGED <<devices, uris, failing, window, is_on_pause,
                   paused_locally, sensor_latest, simulator_latest, crashed,
                   outage>>

\* self.stopped.remove(task_to_start); self.running.append(task_to_start)
MoveStarted ==
    /\ call.pc = "started"
    /\ LET t  == Head(call.todo)
           s1 == get_stopped(call)
           s2 == [s1 EXCEPT !.cache["stopped"].value = Remove(@, t)]
           s3 == get_running(s2)
       IN call' = IF ~InSeq(t, Value(s1, "stopped"))
                  THEN [s1 EXCEPT !.pc = "done", !.exc = "ValueError"]
                  ELSE [s3 EXCEPT
                          !.cache["running"].value = Append(@, t),
                          !.stopped = IF InSeq(t, @) THEN Remove(@, t)
                                      ELSE @,
                          !.running = Append(@, t),
                          !.todo = <<>>,
                          !.pc = "admit"]
    /\ last' = [op |-> "started"]
    /\ UNCHANGED <<devices, uris, task, failing, window, is_on_pause,
                   paused_locally, sensor_latest, simulator_latest, crashed,
                   outage>>

\* the end of Scheduler.schedule(): self.cache.clear()
ScheduleExits ==
    /\ call.pc = "exit"
    /\ call' = [call EXCEPT !.pc = "done", !.cache = Cleared]
    /\ last' = [op |-> "exit"]
    /\ UNCHANGED <<devices, uris, task, failing, window, is_on_pause,
                   paused_locally, sensor_latest, simulator_latest, crashed,
                   outage>>

\* five seconds pass while a remote call is served
CacheTick ==
    /\ call.pc \notin {"idle", "done"}
    /\ call' = [call EXCEPT
                  !.cache = [k \in Keys |->
                                [@[k] EXCEPT !.age = IF @ = Missing THEN @
                                                     ELSE IF @ < TTL THEN @ + 1
                                                     ELSE @]]]
    /\ last' = [op |-> "tick"]
    /\ UNCHANGED <<devices, uris, task, failing, window, is_on_pause,
                   paused_locally, sensor_latest, simulator_latest, crashed,
                   outage>>

NextCache ==
    \/ ScheduleEnters
    \/ FindVictims
    \/ CallStop
    \/ MoveVictim
    \/ Elect
    \/ MoveStarted
    \/ ScheduleExits
    \/ CacheTick

SpecCache == InitCache /\ [][NextCache]_vars

----------------------------------------------------------------------------
(* SpecWindow: the PowerUsageSlidingWindow on its own.  The window starts  *)
(* empty, records are appended by update() and the two ratios are queried  *)
(* for the three tasks.  The third load may declare a power of zero.       *)

\* a load on its own channel that declares no power at all
ZeroPowerLoad == [keys |-> <<"pool">>, power |-> 0]

\* the records handed to update(): 'pool' may be missing, the air handler
\* and the pool may report a value under the ignore threshold
RawRecords ==
    {[net |-> n, EV |-> e] @@ ("A/C" :> 20) @@ ("air handler" :> 1) @@ p :
        n \in {-80, 2}, e \in {0, 28},
        p \in {<<>>, [pool |-> 1], [pool |-> 40]}}

\* the minimum / minimize lists the queries are given
Minimized == {<<>>, <<"charger">>, <<"load">>}

InitWindow ==
    /\ uris = <<>>
    /\ task \in [charger : {Idle("charger")},
                  hvac    : {Idle("hvac")},
                  load    : {[Idle("load") EXCEPT !.keys = c.keys,
                                                  !.power = c.power] :
                                c \in LoadConfigs \cup {ZeroPowerLoad}}]
    /\ failing = NoFailure
    /\ window = <<>>
    /\ is_on_pause = FALSE
    /\ paused_locally = FALSE
    /\ sensor_latest = 0
    /\ simulator_latest = -1
    /\ crashed = FALSE
    /\ outage = [cycles |-> 0, paused |-> FALSE, paused_by |-> "none"]
    /\ NoDevices
    /\ call = NoCall
    /\ last = [op |-> "init"]

\* window.update(record), then power_used_by() of every task
UpdateWindow ==
    /\ \E record \in RawRecords :
          /\ window' = update(window, record)
          /\ last' = [op |-> "update", record |-> record,
                      used |-> [t \in Tasks |-> power_used_by(window', t)]]
    /\ UNCHANGED <<devices, call, uris, task, failing, is_on_pause, paused_locally,
                   sensor_latest, simulator_latest, crashed, outage>>

\* window.power_used_by(task)
QueryPowerUsedBy ==
    /\ window # <<>>
    /\ \E t \in Tasks :
          /\ last' = [op |-> "power_used_by", task |-> t, before |-> window,
                      result |-> power_used_by(window, t)]
          /\ window' = window_after_power_used_by(window, t)
    /\ UNCHANGED <<devices, call, uris, task, failing, is_on_pause,
                   paused_locally, sensor_latest, simulator_latest, crashed,
                   outage>>

\* window.available_for(task, minimum)
QueryAvailableFor ==
    /\ window # <<>>
    /\ \E t \in Tasks, minimum \in Minimized :
          /\ last' = [op |-> "available_for", task |-> t, minimum |-> minimum,
                      before |-> window,
                      result |-> available_for(window, t, minimum, <<>>)]
          /\ window' = window_after_available_for(window, t, minimum, <<>>)
    /\ UNCHANGED <<devices, call, uris, task, failing, is_on_pause,
                   paused_locally, sensor_latest, simulator_latest, crashed,
                   outage>>

\* window.covered_by_production(task, minimize)
QueryCoveredByProduction ==
    /\ window # <<>>
    /\ \E t \in Tasks, minimized \in Minimized :
          /\ last' = [op |-> "covered_by_production", task |-> t,
                      minimize |-> minimized, before |-> window,
                      result |-> covered_by_production(window, t, minimized)]
          /\ window' = window_after_covered_by_production(window, t,
                                                          minimized)
    /\ UNCHANGED <<devices, call, uris, task, failing, is_on_pause,
                   paused_locally, sensor_latest, simulator_latest, crashed,
                   outage>>

\* window.clear()
ClearWindow ==
    /\ window # <<>>
    /\ window' = <<>>
    /\ last' = [op |-> "clear"]
    /\ UNCHANGED <<devices, call, uris, task, failing, is_on_pause, paused_locally,
                   sensor_latest, simulator_latest, crashed, outage>>

NextWindow ==
    \/ UpdateWindow
    \/ QueryPowerUsedBy
    \/ QueryAvailableFor
    \/ QueryCoveredByProduction
    \/ ClearWindow

SpecWindow == InitWindow /\ [][NextWindow]_vars

----------------------------------------------------------------------------
(* Scheduler: stop_all(), sanitize() and the remote controls.              *)

\* Scheduler.stop_all(): [calls, exc]
RECURSIVE StopEach(_, _)
StopEach(ts, calls) ==
    IF ts = <<>> THEN [calls |-> calls, exc |-> "none"]
    ELSE IF CallFails(Head(ts))
         THEN [calls |-> calls, exc |-> "CommunicationError"]
         ELSE StopEach(Tail(ts), Append(calls, [op |-> "stop", task |-> Head(ts)]))

\* a stop_all() that spares the tasks which declare themselves unstoppable
stop_all_stoppable(U) ==
    IF \E t \in Range(U) : QueryFails(t, "stop_all")
    THEN [calls |-> <<>>, exc |-> QueryError]
    ELSE StopEach(SelectSeq(running(U), is_stoppable), <<>>)

stop_all(U) ==
    IF \E t \in Range(U) : QueryFails(t, "stop_all")
    THEN [calls |-> <<>>, exc |-> QueryError]
    ELSE StopEach(running(U), <<>>)

\* Scheduler.sanitize(): [uris, exc].  bound tells whether the local variable
\* `running` has been assigned by the probe of an earlier URI.
RECURSIVE SanitizeFrom(_, _, _)
SanitizeFrom(todo, U, bound) ==
    IF todo = <<>> THEN [uris |-> U, exc |-> "none"]
    ELSE LET uri == Head(todo)
         IN IF failing.task = uri /\ failing.mode = "down"
            \* task.priority raised three times: priority is None
            THEN SanitizeFrom(Tail(todo), Remove(U, uri), bound)
            ELSE IF failing.task = uri /\ failing.mode = "is_running"
            \* priority is an int, is_running() raised three times
            THEN IF bound THEN SanitizeFrom(Tail(todo), U, bound)
                 ELSE [uris |-> U, exc |-> "UnboundLocalError"]
            ELSE SanitizeFrom(Tail(todo), U, TRUE)

sanitize(U) == SanitizeFrom(U, U, FALSE)

\* a registration that appends whether the URI is there or not
register_task_appending(U, uri) == Append(U, uri)

\* Scheduler.register_task(uri)
register_task(U, uri) == IF ~InSeq(uri, U) THEN Append(U, uri) ELSE U

\* Scheduler.unregister_task(uri)
unregister_task(U, uri) == IF InSeq(uri, U) THEN Remove(U, uri) ELSE U

\* the exceptions main() catches around scheduler.schedule()
Caught == {"none", "CommunicationError", "RuntimeError", "AttributeError"}

----------------------------------------------------------------------------
(* main(): one iteration of the loop, on the minute.                       *)

Min(a, b) == IF a <= b THEN a ELSE b

\* SensorReader.time_elapsed_since_latest_record(), in minutes; a reader that
\* never read a record pretends that it read one a minute ago.  Elapsed times
\* are only compared with MaxRecordGap: they are kept up to MaxRecordGap + 1.
time_elapsed_since_latest_record(latest) ==
    IF latest = -1 THEN 1 ELSE Min(latest + 1, MaxRecordGap + 1)

\* a minute passes for a reader that is not used in the cycle
MinuteLater(latest) ==
    IF latest = -1 THEN -1 ELSE Min(latest + 1, MaxRecordGap + 1)

\* main(), after scheduler.schedule() returned or raised: only the exceptions
\* of Caught are caught, any other one leaves main()
after_schedule(next, sch) ==
    [next EXCEPT !.crashed = sch.exc \notin Caught,
                 !.last.sch = sch,
                 !.last.exc = IF sch.exc \in Caught THEN "none" ELSE sch.exc]

\* main(), after scheduler.sanitize() returned or raised (nothing catches)
after_sanitize(next, sane) ==
    IF sane.exc # "none"
    THEN [next EXCEPT !.uris = sane.uris, !.crashed = TRUE,
                      !.last.exc = sane.exc]
    ELSE after_schedule([next EXCEPT !.uris = sane.uris,
                                     !.last.scheduled = ~next.is_on_pause,
                                     !.last.seen = IF next.is_on_pause THEN <<>>
                                                   ELSE next.window],
                        schedule_or_return(next.is_on_pause, sane.uris,
                                           next.window))

\* main(), once a record is there: the resume from a local pause, then
\* stat.update(record) and scheduler.sanitize()
after_record(next, record) ==
    LET resuming == next.is_on_pause /\ next.paused_locally
    IN after_sanitize(
           [next EXCEPT
               !.window = update(IF resuming THEN <<>> ELSE window, record),
               !.paused_locally = IF resuming THEN FALSE ELSE @,
               !.is_on_pause = IF resuming THEN FALSE ELSE @,
               !.last.cleared = resuming],
           sanitize(uris))

\* main(), after the readers were read: with no record at all for more than
\* MaxRecordGap minutes, stop_all() and pause(); `continue` without a record
after_read(next, record, stopping) ==
    IF stopping.exc # "none"
    \* stop_all() raised: nothing catches it
    THEN [next EXCEPT !.crashed = TRUE, !.last.exc = stopping.exc]
    ELSE IF record = <<>>
    THEN [next EXCEPT !.is_on_pause = @ \/ next.last.stop_all,
                      !.paused_locally = @ \/ next.last.stop_all,
                      !.last.stopped = stopping.calls]
    ELSE after_record(next, record[1])

\* One iteration of `while True` in main().  sensor and simulator are what
\* the two readers return: <<>> for None, <<record>> otherwise.  The result
\* holds the next value of every variable of the scheduler process.
main_cycle(sensor, simulator) ==
    LET gap     == time_elapsed_since_latest_record(sensor_latest)
        use_sim == sensor = <<>> /\ gap > MaxRecordGap
        record  == IF sensor # <<>> THEN sensor
                   ELSE IF use_sim THEN simulator ELSE <<>>
        sim_gap == time_elapsed_since_latest_record(simulator_latest)
        too_old == use_sim /\ simulator = <<>> /\ sim_gap > MaxRecordGap
        pausing == too_old /\ ~is_on_pause
    IN after_read(
           [uris |-> uris, window |-> window,
            is_on_pause |-> is_on_pause,
            paused_locally |-> paused_locally,
            sensor_latest |-> IF sensor # <<>> THEN 0 ELSE gap,
            simulator_latest |->
                IF ~use_sim THEN MinuteLater(simulator_latest)
                ELSE IF simulator # <<>> THEN 0 ELSE sim_gap,
            crashed |-> FALSE,
            last |-> [op |-> "cycle", record |-> record,
                      stop_all |-> pausing, stopped |-> <<>>,
                      was_on_pause |-> FALSE, after_pause |-> FALSE,
                      paused_by |-> "none",
                      after_resume |-> FALSE,
                      cleared |-> FALSE, scheduled |-> FALSE,
                      seen |-> <<>>, sch |-> NotScheduled, exc |-> "none"]],
           record,
           IF pausing THEN stop_all(uris)
           ELSE [calls |-> <<>>, exc |-> "none"])

----------------------------------------------------------------------------
(* Spec: the scheduler process.  Between two cycles the daemon serves the  *)
(* remote calls (register_task, unregister_task, pause, resume) and the    *)
(* tasks, which are processes of their own, change state.                  *)

\* what a reader may return: <<>> stands for None
Reads == {<<>>, <<Sunny>>}

\* the tasks of Spec: the charger, always stoppable and of HIGH priority,
\* and the third load, of LOW priority and metered on the charger's channel;
\* both are runnable; which of them run, and whether the load is stoppable,
\* is free
MainTasks == {"charger", "load"}

MainAnswers(t) ==
    {a \in TaskAnswers(t) :
        /\ a.priority = (IF t = "charger" THEN HIGH ELSE LOW)
        /\ a.runnable
        /\ t = "charger" => a.stoppable
        /\ t = "load" => a.keys = <<"EV">>}

Modes == {"down", "dies", "is_running", "call"}

\* in Spec the charger is the task that may fail
MainFailures(U) ==
    {NoFailure} \cup {[task |-> t, mode |-> m] :
                         t \in Range(U) \cap {"charger"}, m \in Modes}

Init ==
    /\ uris = <<>>
    /\ task = [t \in Tasks |-> Idle(t)]
    /\ failing = NoFailure
    /\ window = <<>>
    /\ is_on_pause = FALSE
    /\ paused_locally = FALSE
    /\ sensor_latest = -1
    /\ simulator_latest = -1
    /\ crashed = FALSE
    /\ outage = [cycles |-> 0, paused |-> FALSE, paused_by |-> "none"]
    /\ NoDevices
    /\ call = NoCall
    /\ last = [op |-> "init"]

\* the `while True` iteration of main()
Cycle ==
    /\ ~crashed
    /\ \E sensor \in Reads, simulator \in Reads :
       \E next \in {main_cycle(sensor, simulator)} :
             /\ uris' = next.uris
             /\ window' = next.window
             /\ is_on_pause' = next.is_on_pause
             /\ paused_locally' = next.paused_locally
             /\ sensor_latest' = next.sensor_latest
             /\ simulator_latest' = next.simulator_latest
             /\ crashed' = next.crashed
             /\ last' = [next.last EXCEPT !.was_on_pause = is_on_pause,
                                          !.after_pause = outage.paused,
                                          !.paused_by = outage.paused_by,
                                          !.after_resume =
                                              (last.op = "resume"
                                               /\ last.was_on_pause)]
             /\ outage' = IF next.last.record # <<>>
                          THEN [cycles |-> 0, paused |-> FALSE,
                                paused_by |-> IF next.is_on_pause
                                              THEN outage.paused_by
                                              ELSE "none"]
                          ELSE [cycles |-> IF simulator = <<>>
                                           THEN Min(outage.cycles + 1,
                                                    MaxRecordGap + 2)
                                           ELSE 0,
                                paused |-> outage.paused
                                           \/ (next.is_on_pause /\ next.last.stop_all),
                                paused_by |-> IF next.is_on_pause /\ ~is_on_pause
                                              THEN "main"
                                              ELSE outage.paused_by]
    /\ UNCHANGED <<devices, call, task, failing>>

\* a task calls Scheduler.register_task(uri)
RegisterTask(t) ==
    /\ ~crashed
    /\ uris' = register_task(uris, t)
    /\ last' = [op |-> "remote"]
    /\ UNCHANGED <<devices, call, task, failing, window, is_on_pause, paused_locally,
                   sensor_latest, simulator_latest, crashed, outage>>

\* a task calls Scheduler.unregister_task(uri)
UnregisterTask(t) ==
    /\ ~crashed
    /\ uris' = unregister_task(uris, t)
    /\ last' = [op |-> "remote"]
    /\ UNCHANGED <<devices, call, task, failing, window, is_on_pause, paused_locally,
                   sensor_latest, simulator_latest, crashed, outage>>

\* Scheduler.pause(), called remotely
Pause ==
    /\ ~crashed
    /\ is_on_pause' = (IF ~is_on_pause THEN TRUE ELSE is_on_pause)
    /\ last' = [op |-> "pause", was_on_pause |-> is_on_pause,
                stopped |-> <<>>]
    /\ outage' = [outage EXCEPT !.paused_by = IF ~is_on_pause THEN "remote"
                                               ELSE @]
    /\ UNCHANGED <<devices, call, uris, task, failing, window, paused_locally,
                   sensor_latest, simulator_latest, crashed>>

\* Scheduler.resume(), called remotely
Resume ==
    /\ ~crashed
    /\ is_on_pause' = (IF is_on_pause THEN FALSE ELSE is_on_pause)
    /\ last' = [op |-> "resume", was_on_pause |-> is_on_pause]
    /\ outage' = [outage EXCEPT !.paused_by = "none"]
    /\ UNCHANGED <<devices, call, uris, task, failing, window, paused_locally,
                   sensor_latest, simulator_latest, crashed>>

\* the tasks change state, and one of them may fail
TasksEvolve ==
    /\ ~crashed
    /\ task' \in [charger : Registered("charger", uris, MainAnswers("charger")),
                   hvac    : Registered("hvac", uris, MainAnswers("hvac")),
                   load    : Registered("load", uris, MainAnswers("load"))]
    /\ failing' \in MainFailures(uris)
    /\ last' = [op |-> "remote"]
    /\ UNCHANGED <<devices, call, uris, window, is_on_pause, paused_locally,
                   sensor_latest, simulator_latest, crashed, outage>>

Next ==
    \/ Cycle
    \/ \E t \in MainTasks : RegisterTask(t)
    \/ \E t \in MainTasks : UnregisterTask(t)
    \/ Pause
    \/ Resume
    \/ TasksEvolve

Spec == Init /\ [][Next]_vars

----------------------------------------------------------------------------
(* SpecLoop: the list of registered tasks, between Scheduler.sanitize()    *)
(* and the control loops of the car charger and of the water heater, which *)
(* test themselves and register or unregister on every iteration.  The     *)
(* field removed of last is history: the tasks sanitize() or a failed      *)
(* self-test removed and that were not registered since.                   *)

LoopTasks == {"charger", "water_heater"}

LoopFailures ==
    {NoFailure} \cup {[task |-> t, mode |-> m] :
                         t \in LoopTasks, m \in {"down", "is_running"}}

InitLoop ==
    /\ uris = <<>>
    /\ task = [t \in Tasks |-> Idle(t)]
    /\ failing = NoFailure
    /\ window = <<>>
    /\ is_on_pause = FALSE
    /\ paused_locally = FALSE
    /\ sensor_latest = -1
    /\ simulator_latest = -1
    /\ crashed = FALSE
    /\ outage = [cycles |-> 0, paused |-> FALSE, paused_by |-> "none"]
    /\ NoDevices
    /\ call = NoCall
    /\ last = [op |-> "init", removed |-> {}]

\* SchedulerProxy.register_task(uri) and unregister_task(uri): the call is
\* attempted, and dropped when the scheduler cannot be reached
proxy_register_task(U, uri, reachable) ==
    IF reachable THEN register_task(U, uri) ELSE U

proxy_unregister_task(U, uri, reachable) ==
    IF reachable THEN unregister_task(U, uri) ELSE U

\* the head of an iteration of main() of a task: the self-test, then the
\* registration, or the unregistration when the self-test raised
\* RuntimeError
TaskLoop(t) ==
    /\ \E passed \in BOOLEAN, reachable \in BOOLEAN :
         /\ crashed => ~reachable
         /\ uris' = IF passed THEN proxy_register_task(uris, t, reachable)
                    ELSE proxy_unregister_task(uris, t, reachable)
         /\ last' = [op |-> "loop", task |-> t, passed |-> passed,
                     reachable |-> reachable,
                     was_registered |-> InSeq(t, uris),
                     was_removed |-> t \in last.removed,
                     removed |-> IF ~reachable THEN last.removed
                                 ELSE IF passed THEN last.removed \ {t}
                                 ELSE IF InSeq(t, uris)
                                 THEN last.removed \cup {t}
                                 ELSE last.removed]
    /\ UNCHANGED <<devices, call, task, failing, window, is_on_pause,
                   paused_locally, sensor_latest, simulator_latest, crashed,
                   outage>>

\* scheduler.sanitize(), from main() of the scheduler; an exception of
\* sanitize() ends the scheduler
Sanitize ==
    /\ ~crashed
    /\ LET sane == sanitize(uris)
       IN /\ uris' = sane.uris
          /\ crashed' = (sane.exc # "none")
          /\ last' = [op |-> "sanitize",
                      removed |-> last.removed
                                  \cup (Range(uris) \ Range(sane.uris))]
    /\ UNCHANGED <<devices, call, task, failing, window, is_on_pause,
                   paused_locally, sensor_latest, simulator_latest, outage>>

\* the scheduler is started again
Restart ==
    /\ crashed
    /\ crashed' = FALSE
    /\ uris' = <<>>
    /\ last' = [op |-> "restart", removed |-> {}]
    /\ UNCHANGED <<devices, call, task, failing, window, is_on_pause,
                   paused_locally, sensor_latest, simulator_latest, outage>>

\* a task stops answering, or answers again
LoopTasksEvolve ==
    /\ failing' \in LoopFailures
    /\ failing' # failing
    /\ last' = [op |-> "remote", removed |-> last.removed]
    /\ UNCHANGED <<devices, call, uris, task, window, is_on_pause,
                   paused_locally, sensor_latest, simulator_latest, crashed,
                   outage>>

NextLoop ==
    \/ \E t \in LoopTasks : TaskLoop(t)
    \/ Sanitize
    \/ Restart
    \/ LoopTasksEvolve

SpecLoop == InitLoop /\ [][NextLoop]_vars

----------------------------------------------------------------------------
(* The task processes.  In their specifications the scheduler is the       *)
(* environment: it calls start(), stop() and the queries of the task in    *)
(* any order, with any ratio and any power.                                *)

\* the scheduler process is not part of the specifications of the tasks
NoScheduler ==
    /\ uris = <<>>
    /\ task = [t \in Tasks |-> Idle(t)]
    /\ failing = NoFailure
    /\ window = <<>>
    /\ is_on_pause = FALSE
    /\ paused_locally = FALSE
    /\ sensor_latest = 0
    /\ simulator_latest = -1
    /\ crashed = FALSE
    /\ call = NoCall
    /\ outage = [cycles |-> 0, paused |-> FALSE, paused_by |-> "none"]

\* the ratios handed to meet_running_criteria(): 0.5, 0.9, 0.95, 1 and 1.5
Ratios == {<<1, 2>>, <<9, 10>>, <<19, 20>>, <<1, 1>>, <<3, 2>>}

----------------------------------------------------------------------------
(* car_charger.py: CarChargerTask over the Wallbox charger.  The variable  *)
(* car_charger holds what the charger reports (status_id and the maximum   *)
(* charging current it is set to) and the state of charge the car sensor   *)
(* reports, in tenths of a percent.                                        *)

\* WallboxCarCharger.Status
WallboxStatus == {"FULLY_CHARGED", "UNPLUGGED", "WAITING_FOR_NEXT_SCHEDULE",
                  "PAUSED", "CHARGING"}

\* WallboxCarCharger.max_state_of_charge: 79.6 %
max_state_of_charge == 796

\* WallboxCarCharger.min_charging_current, in Ampere
min_charging_current == 6

\* WallboxCarCharger.max_charging_current, in Ampere, as the charger reports
max_charging_current == 32

\* the states of charge the car sensor reports: 50 %, 79.6 % and 90 %
StatesOfCharge == {500, 796, 900}

\* WallboxCarCharger.is_charging()
is_charging(c) == c.status_id = "CHARGING"

\* WallboxCarCharger.is_plugged_in()
is_plugged_in(c) == c.status_id \notin {"UNPLUGGED", "FULLY_CHARGED"}

\* WallboxCarCharger.can_charge()
can_charge(c) == c.state_of_charge < max_state_of_charge

\* CarChargerTask.is_running()
charger_is_running(c) == is_charging(c)

\* CarChargerTask.is_runnable()
charger_is_runnable(c) == is_plugged_in(c) /\ can_charge(c)

\* CarChargerTask.is_stoppable()
charger_is_stoppable(c) == TRUE

\* an acceptance predicate that does not look at is_runnable()
charger_meet_running_criteria_unguarded(c, ratio, pwr) ==
    IF charger_is_running(c) THEN RatioGE(ratio, 9) ELSE RatioGE(ratio, 10)

\* CarChargerTask.meet_running_criteria(ratio, power)
charger_meet_running_criteria(c, ratio, pwr) ==
    IF ~charger_is_runnable(c) THEN FALSE
    ELSE IF charger_is_running(c) THEN RatioGE(ratio, 9)
    ELSE RatioGE(ratio, 10)

\* CarChargerTask.current_rate_for(power): power in units of 0.05 kW,
\* 0.237 kW per Ampere
current_rate_for(pwr) ==
    LET rate == Max((pwr * 50) \div 237, min_charging_current)
    IN IF rate < max_charging_current THEN rate ELSE max_charging_current

InitCharger ==
    /\ NoScheduler
    /\ car_charger \in [status_id : WallboxStatus,
                         state_of_charge : StatesOfCharge,
                         charging_current : {min_charging_current}]
    /\ water_heater = None
    /\ pool_pump = None
    /\ hvac = None
    /\ last = [op |-> "init"]

\* CarChargerTask.start(): WallboxCarCharger.start() resumes the charging
\* session; a paused or waiting charger begins charging
ChargerStart ==
    /\ car_charger' =
          [car_charger EXCEPT !.status_id =
              IF @ \in {"PAUSED", "WAITING_FOR_NEXT_SCHEDULE"} THEN "CHARGING"
              ELSE @]
    /\ last' = [op |-> "start"]
    /\ UNCHANGED <<scheduler, water_heater, pool_pump, hvac>>

\* CarChargerTask.stop(): WallboxCarCharger.stop() pauses the charging
\* session and sets the charging current back to the minimum
ChargerStop ==
    /\ car_charger' =
          [car_charger EXCEPT !.status_id = IF @ = "CHARGING" THEN "PAUSED"
                                            ELSE @,
                              !.charging_current = min_charging_current]
    /\ last' = [op |-> "stop"]
    /\ UNCHANGED <<scheduler, water_heater, pool_pump, hvac>>

\* CarChargerTask.meet_running_criteria(ratio, power), called remotely
ChargerMeetRunningCriteria ==
    /\ \E ratio \in Ratios :
          last' = [op |-> "meet_running_criteria", ratio |-> ratio,
                   result |-> charger_meet_running_criteria(car_charger,
                                                            ratio, 0)]
    /\ UNCHANGED <<scheduler, devices>>

\* main(): the inner loop calls adjust_charge_rate(record) on the task
\* that is running; available is -(record['net'] - task.usage(record))
AdjustChargeRate ==
    /\ charger_is_running(car_charger)
    /\ \E available \in {0, 40, 80} :
          car_charger' = [car_charger EXCEPT
                             !.charging_current = current_rate_for(available)]
    /\ last' = [op |-> "adjust_charge_rate"]
    /\ UNCHANGED <<scheduler, water_heater, pool_pump, hvac>>

\* the car is plugged in or unplugged, charges, completes its charge
ChargerEvolves ==
    /\ \E status_id \in WallboxStatus, state_of_charge \in StatesOfCharge :
          car_charger' = [car_charger EXCEPT
                             !.status_id = status_id,
                             !.state_of_charge = state_of_charge]
    /\ last' = [op |-> "evolves"]
    /\ UNCHANGED <<scheduler, water_heater, pool_pump, hvac>>

NextCharger ==
    \/ ChargerStart
    \/ ChargerStop
    \/ ChargerMeetRunningCriteria
    \/ AdjustChargeRate
    \/ ChargerEvolves

SpecCharger == InitCharger /\ [][NextCharger]_vars

----------------------------------------------------------------------------
(* water_heater.py: the WaterHeater task over the Aquanta controller.      *)
(* Time is counted in minutes.  A datetime of the task is kept relative to *)
(* now: started_at is the time elapsed since that instant, capped at       *)
(* HeaterCap; _not_runnable_till and target_time are the time left until   *)
(* that instant, 0 (or -1 for target_time) once it is past, which is what  *)
(* datetime.min is from the start.  Temperatures are in Fahrenheit, the    *)
(* tank level in percent.  The Aquanta server answers every request.       *)

\* Unset, for an attribute that holds a number otherwise
Unset == -1

\* settings.min_run_time, in minutes
heater_min_run_time == 2

\* settings.no_power_delay, in minutes
no_power_delay == 1

\* settings.desired_temperature
desired_temperature == 125

\* settings.minutes_per_degree
minutes_per_degree == 2

\* settings.power: 4.65 kW in units of 0.05 kW
heater_power == 93

\* the furthest target time, in minutes from now
MaxTargetTime == 2

\* the cap of the elapsed times: one minute more than every duration the
\* code compares them to (timedelta(minutes=4), min_run_time)
HeaterCap == Max(4, heater_min_run_time) + 1

\* the modes of the Aquanta device
AquantaModes == {"timer", "boost", "away", "setpoint"}

\* what the device reports of the water: a full and hot tank, a full tank
\* one degree under the desired temperature, a tank more than half empty
Waters == {[temperature |-> 125, available |-> 100],
           [temperature |-> 124, available |-> 100],
           [temperature |-> 105, available |-> 40]}

\* today_schedule() with respect to now: "in" when now and now + 3 minutes
\* are inside one of its windows, "out" when neither is
Schedules == {"out", "in"}

\* WaterHeaterState.update(temperature, tank_level, force), called by
\* WaterHeater._update_state() on every read of temperature and available
update_state(w) ==
    LET force == w.not_runnable_till > 0
        w1 == IF w.tank_level # Unset /\ w.tank_level > w.water.available
              THEN [w EXCEPT !.not_runnable_till = 0] ELSE w
    IN IF \/ force
          \/ w.temperature = Unset
          \/ w.water.temperature < w.temperature
          \/ w.water.available < w.tank_level
       THEN [w1 EXCEPT !.temperature = w.water.temperature,
                       !.tank_level = w.water.available]
       ELSE w1

\* int(): the truncation towards zero
Truncate(n, d) == IF n >= 0 THEN n \div d ELSE -((-n) \div d)

\* WaterHeater.estimate_run_time(), in minutes, once the state is updated
estimate_run_time(w) ==
    LET mixed == 60 * (100 - w.tank_level) + w.temperature * w.tank_level
        deviation == desired_temperature * 100 - mixed
    IN Truncate(deviation * minutes_per_degree, 100)

\* WaterHeater.is_running()
heater_is_running(w) == w.mode \in {"setpoint", "boost"}

\* WaterHeater.is_runnable()
heater_is_runnable(w) == w.not_runnable_till = 0 /\ ~w.has_reached_target

\* WaterHeater.has_been_running_for(): the task and the duration
has_been_running_for(w) ==
    IF heater_is_running(w)
    THEN LET w1 == IF w.started_at = Unset THEN [w EXCEPT !.started_at = 0]
                   ELSE w
         IN [task |-> w1, duration |-> w1.started_at]
    ELSE [task |-> w, duration |-> 0]

\* WaterHeater.is_stoppable(): the task and the answer
heater_is_stoppable(w) ==
    IF ~heater_is_runnable(w) THEN [task |-> w, result |-> TRUE]
    ELSE LET run == has_been_running_for(w)
         IN [task |-> run.task,
             result |-> run.duration > heater_min_run_time]

\* target_time - datetime.now(), in minutes
TimeToTarget(w) == w.target_time

\* WaterHeater.meet_running_criteria(): the test on the target time
heater_accepts_any_ratio(w) ==
    /\ w.priority = URGENT
    /\ TimeToTarget(w) < estimate_run_time(w)

\* WaterHeater.meet_running_criteria(ratio, power): the task and the answer
heater_meet_running_criteria(w, ratio, pwr) ==
    LET run      == has_been_running_for(w)
        duration == run.duration
        w1       == IF duration > 0 THEN update_state(run.task) ELSE run.task
        long     == w1.tank_level = 100 \/ duration >= 4
        \* duration > min_time, 30 or 90 seconds
        past     == IF long THEN 2 * duration > 1 ELSE 2 * duration > 3
        \* power <= min_power, half the power of the task or 0
        idle     == IF long THEN 2 * pwr <= heater_power ELSE pwr <= 0
        delay    == IF duration > 3 THEN 4 * no_power_delay
                    ELSE no_power_delay
    IN IF duration > 0 /\ past /\ idle
       THEN [task |-> [w1 EXCEPT !.not_runnable_till = delay],
             result |-> FALSE]
       ELSE LET w2 == update_state(w1)
            IN [task |-> w2,
                result |-> IF heater_accepts_any_ratio(w2) THEN TRUE
                           ELSE RatioGE(ratio, 10)]

\* WaterHeater.start()
heater_start(w) ==
    IF heater_is_running(w) THEN w
    ELSE [update_state(w) EXCEPT !.mode = "boost", !.started_at = 0]

\* WaterHeater.stop()
heater_stop(w) ==
    LET mode == IF w.mode = "boost" THEN "timer" ELSE w.mode
    IN [w EXCEPT !.mode = IF w.schedule = "in" THEN "away" ELSE mode,
                 !.started_at = Unset]

\* the thresholds of adjust_priority(): available and temperature
Thresholds(level) ==
    CASE level = URGENT -> [available |-> 50, temperature |-> 110]
      [] level = HIGH   -> [available |-> 70, temperature |-> 120]
      [] level = MEDIUM -> [available |-> 90,
                               temperature |-> desired_temperature]
      [] level = LOW    -> [available |-> 100,
                               temperature |-> desired_temperature]

\* WaterHeater.adjust_priority()
RECURSIVE AdjustFrom(_, _)
AdjustFrom(w, level) ==
    IF level < LOW THEN [w EXCEPT !.has_reached_target = TRUE]
    ELSE IF /\ w.tank_level >= Thresholds(level).available
            /\ w.temperature >= Thresholds(level).temperature
    THEN AdjustFrom(w, level - 1)
    ELSE [w EXCEPT !.has_reached_target = FALSE,
                   !.priority =
                       IF /\ level < URGENT
                          /\ TimeToTarget(w) > 0
                          /\ TimeToTarget(w) < estimate_run_time(w)
                       THEN level + 1 ELSE level]

adjust_priority(w) == AdjustFrom(update_state(w), URGENT)

\* WaterHeater.prevent_auto_start()
prevent_auto_start(w) ==
    IF ~heater_is_running(w) /\ w.mode = "timer" /\ w.schedule # "out"
    THEN [w EXCEPT !.mode = "away"] ELSE w

\* history: for how long is_running() has been true, Unset when it is not
RunningFor(w, before) ==
    IF ~heater_is_running(w) THEN Unset
    ELSE IF before.running_for = Unset THEN 0 ELSE before.running_for

\* the task after a step, with its history
Heater(w) == [w EXCEPT !.running_for = RunningFor(w, water_heater)]

\* WaterHeater.__init__(): the priority is adjusted once.  The device may
\* have been heating for any time when the task is created.
InitWaterHeater ==
    /\ NoScheduler
    /\ car_charger = None
    /\ water_heater \in
         {LET w == [mode |-> mode, schedule |-> sched, water |-> water,
                    temperature |-> Unset, tank_level |-> Unset,
                    priority |-> LOW, has_reached_target |-> FALSE,
                    target_time |-> Unset, started_at |-> Unset,
                    not_runnable_till |-> 0, running_for |-> Unset]
          IN [adjust_priority(w) EXCEPT
                 !.running_for = IF heater_is_running(w) THEN since
                                 ELSE Unset] :
            mode \in AquantaModes, sched \in Schedules, water \in Waters,
            since \in 0..heater_min_run_time}
    /\ pool_pump = None
    /\ hvac = None
    /\ last = [op |-> "init"]

\* WaterHeater.start(), called remotely
HeaterStart ==
    /\ water_heater' = Heater(heater_start(water_heater))
    /\ last' = [op |-> "start"]
    /\ UNCHANGED <<scheduler, car_charger, pool_pump, hvac>>

\* WaterHeater.stop(), called remotely; the history keeps what
\* is_stoppable() and is_running() answer when stop() is called, for how
\* long the heater had been running and its mode
HeaterStop ==
    /\ water_heater' = Heater(heater_stop(water_heater))
    /\ last' = [op |-> "stop",
                stoppable |-> heater_is_stoppable(water_heater).result,
                running |-> heater_is_running(water_heater),
                running_for |-> water_heater.running_for,
                mode |-> water_heater.mode]
    /\ UNCHANGED <<scheduler, car_charger, pool_pump, hvac>>

\* WaterHeater.is_stoppable(), called remotely
HeaterIsStoppable ==
    /\ water_heater' = Heater(heater_is_stoppable(water_heater).task)
    /\ last' = [op |-> "is_stoppable",
                result |-> heater_is_stoppable(water_heater).result]
    /\ UNCHANGED <<scheduler, car_charger, pool_pump, hvac>>

\* WaterHeater.meet_running_criteria(ratio, power), called remotely
HeaterMeetRunningCriteria ==
    /\ \E ratio \in {<<1, 2>>, <<1, 1>>}, pwr \in {0, heater_power} :
         LET met == heater_meet_running_criteria(water_heater, ratio, pwr)
         IN /\ water_heater' = Heater(met.task)
            /\ last' = [op |-> "meet_running_criteria", ratio |-> ratio,
                        result |-> met.result]
    /\ UNCHANGED <<scheduler, car_charger, pool_pump, hvac>>

\* main(): one iteration of the loop after the wait: adjust_priority(),
\* prevent_auto_start() unless the scheduler is on pause, and a new target
\* time from power_simulator.next_power_window() once the former is past,
\* unless the call fails
HeaterLoop ==
    /\ \E on_pause \in BOOLEAN, next_window \in {Unset} \cup 1..MaxTargetTime :
         LET w1 == adjust_priority(water_heater)
             w2 == IF on_pause THEN w1 ELSE prevent_auto_start(w1)
             w3 == IF TimeToTarget(w2) < 0 /\ next_window # Unset
                   THEN [w2 EXCEPT !.target_time = next_window] ELSE w2
         IN water_heater' = Heater(w3)
    /\ last' = [op |-> "loop"]
    /\ UNCHANGED <<scheduler, car_charger, pool_pump, hvac>>

\* a minute passes
HeaterTick ==
    /\ water_heater' =
         [water_heater EXCEPT
             !.started_at = IF @ = Unset THEN Unset ELSE Min(@ + 1, HeaterCap),
             !.running_for = IF @ = Unset THEN Unset
                             ELSE Min(@ + 1, heater_min_run_time),
             !.not_runnable_till = Max(@ - 1, 0),
             !.target_time = Max(@ - 1, -1)]
    /\ last' = [op |-> "tick"]
    /\ UNCHANGED <<scheduler, car_charger, pool_pump, hvac>>

\* the device changes mode on its own (the boost is over, the timer, the
\* Aquanta application), the water is drawn or heated, the schedule moves
HeaterEvolves ==
    /\ \E mode \in AquantaModes, sched \in Schedules, water \in Waters :
         water_heater' = Heater([water_heater EXCEPT !.mode = mode,
                                                     !.schedule = sched,
                                                     !.water = water])
    /\ last' = [op |-> "evolves"]
    /\ UNCHANGED <<scheduler, car_charger, pool_pump, hvac>>

NextWaterHeater ==
    \/ HeaterStart
    \/ HeaterStop
    \/ HeaterIsStoppable
    \/ HeaterMeetRunningCriteria
    \/ HeaterLoop
    \/ HeaterTick
    \/ HeaterEvolves

SpecWaterHeater == InitWaterHeater /\ [][NextWaterHeater]_vars

----------------------------------------------------------------------------
(* pool_pump.py: the PoolPump task over an Ewelink switch.  Time is        *)
(* counted in minutes and started_at is the time elapsed since that        *)
(* instant, capped at PumpCap; last_update likewise, capped at MaxGap.     *)
(* The history field ran is the time during which the switch was on since  *)
(* the last update of the remaining runtime.  The priority and the target  *)
(* time play no part in the operations modelled.                           *)

\* settings.min_run_time, in minutes
pump_min_run_time == 3

\* the grace period of meet_running_criteria(): timedelta(minutes=2)
GracePeriod == 2

\* the power floor of meet_running_criteria(): 0.2 kW in units of 0.05 kW
PowerFloor == 4

\* settings.clean_filter_threshold: 1.55 kW in units of 0.05 kW
clean_filter_threshold == 31

\* the longest remaining runtime configure_cycle() sets, in minutes
MaxRuntime == 2

\* the longest list of powers kept since the last start()
MaxPowers == 2

\* the longest time counted since the last update of the remaining runtime
MaxGap == 2

PumpCap == Max(GracePeriod, pump_min_run_time) + 1

\* the powers the scheduler reports to meet_running_criteria(): 0 and 2 kW
PumpPowers == {0, 40}

\* an Ewelink request that fails raises RuntimeError
RuntimeError == "RuntimeError"

\* PoolPump.is_running(), where the device list can be read; it raises
\* RuntimeError where it cannot
pump_is_running(p) == p.switch = "on"

\* PoolPump.has_been_running_for(): the task and the duration, or the task
\* and RuntimeError
pump_has_been_running_for(p) ==
    IF ~p.up THEN [task |-> p, duration |-> Unset, exc |-> RuntimeError]
    ELSE IF pump_is_running(p)
    THEN LET p1 == IF p.started_at = Unset THEN [p EXCEPT !.started_at = 0]
                   ELSE p
         IN [task |-> p1, duration |-> p1.started_at, exc |-> "none"]
    ELSE [task |-> p, duration |-> 0, exc |-> "none"]

\* PoolPump.is_runnable(), where the device list can be read
pump_is_runnable(p) == p.remaining_runtime > 0 /\ p.online

\* PoolPump.is_stoppable(): the task, the answer and the exception raised
pump_is_stoppable(p) ==
    LET run == pump_has_been_running_for(p)
    IN [task |-> run.task, exc |-> run.exc,
        result |-> /\ run.exc = "none"
                   /\ run.duration > pump_min_run_time
                   /\ p.online]

\* statistics.mean(powers) > threshold
MeanAbove(powers, threshold) == SumSeq(powers) > threshold * Len(powers)

\* PoolPump.meet_running_criteria(): the value returned
pump_accepts(p, ratio) == pump_is_runnable(p) /\ RatioGE(ratio, 9)

\* PoolPump.meet_running_criteria(ratio, power): the task, the answer and
\* the exception raised
pump_meet_running_criteria(p, ratio, pwr) ==
    LET run == pump_has_been_running_for(p)
        p1  == run.task
        p2  == IF run.duration > GracePeriod
               THEN [p1 EXCEPT !.healthy = pwr > PowerFloor,
                               !.powers = Append(@, pwr),
                               !.filter_is_clean =
                                   MeanAbove(Append(p1.powers, pwr),
                                             clean_filter_threshold)]
               ELSE p1
    IN IF run.exc # "none"
       THEN [task |-> p1, result |-> FALSE, exc |-> run.exc]
       ELSE [task |-> p2, result |-> pump_accepts(p2, ratio),
             exc |-> "none"]

\* PoolPump.start(): the request to the switch comes first
pump_start(p) ==
    IF ~p.up THEN p
    ELSE [p EXCEPT !.switch = "on", !.started_at = 0, !.healthy = TRUE,
                   !.powers = <<>>]

\* PoolPump.stop(): started_at is reset before the request to the switch
pump_stop(p) ==
    [p EXCEPT !.started_at = Unset,
              !.switch = IF p.up THEN "off" ELSE @]

\* PoolPump.update_remaining_runtime(): now - max(last_update, started_at)
counted(p) == Min(p.last_update, p.started_at)

\* PoolPump.update_remaining_runtime(); when is_running() raises, the
\* counter and last_update are left as they are
update_remaining_runtime(p) ==
    IF ~p.up THEN p
    ELSE LET p1 == IF pump_is_running(p) /\ p.started_at = Unset
                   THEN [p EXCEPT !.started_at = 0] ELSE p
             ran == IF pump_is_running(p1) THEN counted(p1) ELSE 0
         IN [p1 EXCEPT !.remaining_runtime = Max(@ - ran, 0),
                       !.last_update = 0, !.ran = 0]

\* the remaining runtimes configure_cycle() sets: the time already run
\* today may exceed the runtime of the day
Configured == -1..MaxRuntime

\* a self-test that registers the task whatever its health
self_test_whatever_health(p) ==
    IF ~p.up
    THEN [task |-> [p EXCEPT !.registered = FALSE],
          calls |-> <<"unregister_task">>]
    ELSE [task |-> [p EXCEPT !.registered = TRUE],
          calls |-> <<"register_task">>]

\* main(): the self-test of the loop, with the calls it makes
self_test(p) ==
    IF ~p.up
    THEN [task |-> [p EXCEPT !.registered = FALSE],
          calls |-> <<"unregister_task">>]
    ELSE IF p.healthy
    THEN [task |-> [p EXCEPT !.registered = TRUE],
          calls |-> <<"register_task">>]
    ELSE [task |-> [pump_stop(p) EXCEPT !.registered = FALSE],
          calls |-> <<"unregister_task", "stop">>]

\* PoolPump.__init__(): update_remaining_runtime() notes a pump that runs
InitPoolPump ==
    /\ NoScheduler
    /\ car_charger = None
    /\ water_heater = None
    /\ pool_pump \in
         {[switch |-> switch, online |-> online, up |-> TRUE,
           healthy |-> TRUE, filter_is_clean |-> TRUE, powers |-> <<>>,
           started_at |-> IF switch = "on" THEN 0 ELSE Unset,
           last_update |-> 0, remaining_runtime |-> 0,
           registered |-> FALSE, ticked |-> FALSE,
           ran |-> 0] :
            switch \in {"on", "off"}, online \in BOOLEAN}
    /\ hvac = None
    /\ last = [op |-> "init"]

\* PoolPump.start(), called remotely
PumpStart ==
    /\ pool_pump' = pump_start(pool_pump)
    /\ last' = [op |-> "start"]
    /\ UNCHANGED <<scheduler, car_charger, water_heater, hvac>>

\* PoolPump.stop(), called remotely
PumpStop ==
    /\ pool_pump' = pump_stop(pool_pump)
    /\ last' = [op |-> "stop"]
    /\ UNCHANGED <<scheduler, car_charger, water_heater, hvac>>

\* PoolPump.is_stoppable(), called remotely
PumpIsStoppable ==
    /\ pool_pump' = pump_is_stoppable(pool_pump).task
    /\ last' = [op |-> "is_stoppable",
                result |-> pump_is_stoppable(pool_pump).result,
                exc |-> pump_is_stoppable(pool_pump).exc]
    /\ UNCHANGED <<scheduler, car_charger, water_heater, hvac>>

\* PoolPump.meet_running_criteria(ratio, power), called remotely; the
\* history keeps for how long the pump had been running
PumpMeetRunningCriteria ==
    /\ \E ratio \in {<<1, 2>>, <<1, 1>>}, pwr \in PumpPowers :
         LET met == pump_meet_running_criteria(pool_pump, ratio, pwr)
         IN /\ Len(met.task.powers) <= MaxPowers
            /\ pool_pump' = met.task
            /\ last' = [op |-> "meet_running_criteria", ratio |-> ratio,
                        power |-> pwr, result |-> met.result,
                        exc |-> met.exc,
                        duration |->
                            pump_has_been_running_for(pool_pump).duration]
    /\ UNCHANGED <<scheduler, car_charger, water_heater, hvac>>

\* main(): one iteration of the loop, once the minute is over:
\* configure_cycle() when the day is over, update_remaining_runtime() and
\* the self-test.  The history keeps whether the task was healthy and
\* registered, the
\* remaining runtime before and after update_remaining_runtime(), whether
\* that call returned, and the time the pump had actually been running
\* since the former update.
PumpLoop ==
    /\ pool_pump.ticked
    /\ \E reconfigure \in BOOLEAN, configured \in Configured :
         LET p1 == IF reconfigure
                   THEN [pool_pump EXCEPT !.remaining_runtime = configured]
                   ELSE pool_pump
             p2 == update_remaining_runtime(p1)
             tested == self_test(p2)
         IN /\ ~reconfigure => configured = 0
            /\ pool_pump' = [tested.task EXCEPT !.ticked = FALSE]
            /\ last' = [op |-> "loop", healthy |-> pool_pump.healthy,
                        registered |-> pool_pump.registered,
                        calls |-> tested.calls,
                        before |-> p1.remaining_runtime,
                        after |-> p2.remaining_runtime,
                        updated |-> p1.up,
                        ran |-> pool_pump.ran,
                        runnable |-> pump_is_runnable(tested.task)]
    /\ UNCHANGED <<scheduler, car_charger, water_heater, hvac>>

\* a minute passes
PumpTick ==
    /\ pool_pump' = [pool_pump EXCEPT
                       !.started_at = IF @ = Unset THEN Unset
                                      ELSE Min(@ + 1, PumpCap),
                       !.ran = IF pump_is_running(pool_pump)
                               THEN Min(@ + 1, MaxGap) ELSE @,
                       !.last_update = Min(@ + 1, MaxGap),
                       !.ticked = TRUE]
    /\ last' = [op |-> "tick"]
    /\ UNCHANGED <<scheduler, car_charger, water_heater, hvac>>

\* the switch is operated by hand, goes offline, the Ewelink server stops
\* or resumes answering
PumpEvolves ==
    /\ \E switch \in {"on", "off"}, online \in BOOLEAN, up \in BOOLEAN :
         pool_pump' = [pool_pump EXCEPT !.switch = switch,
                                        !.online = online, !.up = up]
    /\ last' = [op |-> "evolves"]
    /\ UNCHANGED <<scheduler, car_charger, water_heater, hvac>>

NextPoolPump ==
    \/ PumpStart
    \/ PumpStop
    \/ PumpIsStoppable
    \/ PumpMeetRunningCriteria
    \/ PumpLoop
    \/ PumpTick
    \/ PumpEvolves

SpecPoolPump == InitPoolPump /\ [][NextPoolPump]_vars

----------------------------------------------------------------------------
(* hvac.py: the HVACTask over an Ecobee thermostat.  Time is counted in    *)
(* minutes; _started_at and _stopped_at are the time elapsed since those   *)
(* instants, capped at HVACCap.  The history field run is the time elapsed *)
(* since the current run began: since the last successful start() or since *)
(* the thermostat began to run by itself, whichever is the latest.         *)

\* settings.min_run_time, in minutes
hvac_min_run_time == 2

HVACCap == hvac_min_run_time + 1

\* the values of equipment_status: idle, fan only, compressor
EquipmentStatus == {"", "fan", "compCool1"}

\* HVACTask._is_on_hold()
_is_on_hold(h) == h.hold

\* HVACTask.is_running()
hvac_is_running(h) == h.status \notin {"", "fan"} \/ _is_on_hold(h)

\* HVACTask._has_been_running_for(): the task and the duration
_has_been_running_for(h) ==
    IF hvac_is_running(h)
    THEN LET h1 == IF h._started_at = Unset THEN [h EXCEPT !._started_at = 0]
                   ELSE h
         IN [task |-> h1, duration |-> h1._started_at]
    ELSE [task |-> h, duration |-> 0]

\* HVACTask.is_stoppable(): the task and the answer
hvac_is_stoppable(h) ==
    LET run == _has_been_running_for(h)
    IN [task |-> run.task,
        result |-> IF run.duration > hvac_min_run_time
                   THEN _is_on_hold(run.task) ELSE FALSE]

\* the history field: a run begins when the task starts to run
Run(h, before) ==
    IF ~hvac_is_running(h) THEN [h EXCEPT !.run = Unset]
    ELSE IF ~hvac_is_running(before) THEN [h EXCEPT !.run = 0]
    ELSE h

\* HVACTask.start(): helpful tells whether _next_helpful_mode() found a
\* mode, ok whether the thermostat accepted the hold
hvac_start(h, helpful, ok) ==
    IF ~helpful \/ ~ok THEN h
    ELSE [h EXCEPT !.hold = TRUE, !._started_at = 0, !.run = 0]

\* HVACTask.stop(): ok tells whether the thermostat resumed its program
hvac_stop(h, ok) ==
    IF ~ok THEN h
    ELSE Run([h EXCEPT !.hold = FALSE, !._started_at = Unset,
                       !._stopped_at = 0], h)

\* HVACTask.__init__(): _started_at is None, _stopped_at is datetime.min
InitHVAC ==
    /\ NoScheduler
    /\ car_charger = None
    /\ water_heater = None
    /\ pool_pump = None
    /\ hvac \in {Run([status |-> status, hold |-> hold, _started_at |-> Unset,
                      _stopped_at |-> HVACCap, run |-> Unset],
                     [status |-> "", hold |-> FALSE]) :
                   status \in EquipmentStatus, hold \in BOOLEAN}
    /\ last = [op |-> "init"]

\* HVACTask.start(), called remotely
HVACStart ==
    /\ \E helpful \in BOOLEAN, ok \in BOOLEAN :
         /\ hvac' = hvac_start(hvac, helpful, ok)
         /\ last' = [op |-> "start", helpful |-> helpful, ok |-> ok]
    /\ UNCHANGED <<scheduler, car_charger, water_heater, pool_pump>>

\* HVACTask.stop(), called remotely
HVACStop ==
    /\ \E ok \in BOOLEAN :
         /\ hvac' = hvac_stop(hvac, ok)
         /\ last' = [op |-> "stop", ok |-> ok]
    /\ UNCHANGED <<scheduler, car_charger, water_heater, pool_pump>>

\* HVACTask.is_stoppable(), called remotely; the history keeps for how long
\* the current run has lasted
HVACIsStoppable ==
    /\ hvac' = hvac_is_stoppable(hvac).task
    /\ last' = [op |-> "is_stoppable",
                result |-> hvac_is_stoppable(hvac).result,
                run |-> hvac.run]
    /\ UNCHANGED <<scheduler, car_charger, water_heater, pool_pump>>

\* a minute passes
HVACTick ==
    /\ hvac' = [hvac EXCEPT
                  !._started_at = IF @ = Unset THEN @ ELSE Min(@ + 1, HVACCap),
                  !._stopped_at = Min(@ + 1, HVACCap),
                  !.run = IF @ = Unset THEN @ ELSE Min(@ + 1, HVACCap)]
    /\ last' = [op |-> "tick"]
    /\ UNCHANGED <<scheduler, car_charger, water_heater, pool_pump>>

\* the hold expires or is set on the thermostat; the equipment starts or
\* stops according to the program
HVACEvolves ==
    /\ \E status \in EquipmentStatus, hold \in BOOLEAN :
         hvac' = Run([hvac EXCEPT !.status = status, !.hold = hold], hvac)
    /\ last' = [op |-> "evolves"]
    /\ UNCHANGED <<scheduler, car_charger, water_heater, pool_pump>>

NextHVAC ==
    \/ HVACStart
    \/ HVACStop
    \/ HVACIsStoppable
    \/ HVACTick
    \/ HVACEvolves

SpecHVAC == InitHVAC /\ [][NextHVAC]_vars

----------------------------------------------------------------------------
(* hvac.py: the HVACParam thread and the control thread that reads it.     *)
(* Here hvac holds the shared dictionary _data and the position of the two *)
(* threads.  A planner output is identified by the number of the update    *)
(* that produced it: target_time is the number of the update that wrote    *)
(* it, passive_curve the number of the target time the curve was computed  *)
(* for.  Every `with self._lock` block of the code holds one access to     *)
(* _data and is one step; the history tells whether a step held the lock.  *)

\* the number of updates of the target time in a behaviour
MaxUpdates == 3

\* HVACParam.is_ready(): the four outputs are set, by the same update
InitParam ==
    /\ NoScheduler
    /\ car_charger = None
    /\ water_heater = None
    /\ pool_pump = None
    /\ hvac = [max_available_power |-> 0, target_time |-> 0,
               passive_curve |-> 0, param |-> "sleep", control |-> "idle",
               time |-> Unset]
    /\ last = [op |-> "init"]

\* HVACParam.run(): once the goal time is past, _update_max_available_power()
\* and _update_target_time(); either may raise, and then the thread sleeps
\* and starts over
ParamUpdate ==
    /\ hvac.param = "sleep"
    /\ hvac.target_time < MaxUpdates
    /\ \E power_ok \in BOOLEAN, target_ok \in BOOLEAN :
         /\ ~power_ok => ~target_ok
         /\ hvac' = [hvac EXCEPT
                       !.max_available_power =
                           IF power_ok THEN hvac.target_time + 1 ELSE @,
                       !.target_time = IF target_ok THEN @ + 1 ELSE @,
                       !.param = IF target_ok THEN "curve" ELSE "sleep"]
         /\ last' = [op |-> "write", thread |-> "param",
                     key |-> IF target_ok THEN "target_time"
                             ELSE "max_available_power",
                     locked |-> TRUE]
    /\ UNCHANGED <<scheduler, car_charger, water_heater, pool_pump>>

\* HVACParam.run(): the goal time is not past, the target time is kept
ParamKeep ==
    /\ hvac.param = "sleep"
    /\ hvac' = [hvac EXCEPT !.param = "curve"]
    /\ last' = [op |-> "read", thread |-> "param", key |-> "target_time",
                locked |-> TRUE]
    /\ UNCHANGED <<scheduler, car_charger, water_heater, pool_pump>>

\* HVACParam._compute_passive_curve(), for the goal time of the current
\* target time: it stores a new curve, or raises RuntimeError
ParamComputePassiveCurve ==
    /\ hvac.param = "curve"
    /\ \E raised \in BOOLEAN :
         /\ hvac' = [hvac EXCEPT
                       !.passive_curve = IF raised THEN @ ELSE hvac.target_time,
                       !.param = IF raised THEN "sleep" ELSE "debug"]
         /\ last' = [op |-> IF raised THEN "raise" ELSE "write",
                     thread |-> "param", key |-> "passive_curve",
                     locked |-> TRUE]
    /\ UNCHANGED <<scheduler, car_charger, water_heater, pool_pump>>

\* HVACParam.run(): the debug() calls read self._data['passive_curve']
\* outside any `with self._lock` block
ParamDebug ==
    /\ hvac.param = "debug"
    /\ hvac' = [hvac EXCEPT !.param = "sleep"]
    /\ last' = [op |-> "read", thread |-> "param", key |-> "passive_curve",
                locked |-> FALSE]
    /\ UNCHANGED <<scheduler, car_charger, water_heater, pool_pump>>

\* HVACParam.target_temp, first block: time = self._data['target_time']
TargetTempReadsTime ==
    /\ hvac.control = "idle"
    /\ hvac' = [hvac EXCEPT !.control = "target_temp",
                            !.time = hvac.target_time]
    /\ last' = [op |-> "read", thread |-> "control", key |-> "target_time",
                locked |-> TRUE]
    /\ UNCHANGED <<scheduler, car_charger, water_heater, pool_pump>>

\* HVACParam.target_temp, second block: __get_temperature(time) evaluates
\* self._data['passive_curve']; the history keeps the value returned, the
\* curve and the time it was evaluated at
TargetTempReadsCurve ==
    /\ hvac.control = "target_temp"
    /\ hvac' = [hvac EXCEPT !.control = "idle", !.time = Unset]
    /\ last' = [op |-> "target_temp", thread |-> "control",
                key |-> "passive_curve", locked |-> TRUE,
                time |-> hvac.time, curve |-> hvac.passive_curve]
    /\ UNCHANGED <<scheduler, car_charger, water_heater, pool_pump>>

NextParam ==
    \/ ParamUpdate
    \/ ParamKeep
    \/ ParamComputePassiveCurve
    \/ ParamDebug
    \/ TargetTempReadsTime
    \/ TargetTempReadsCurve

SpecParam == InitParam /\ [][NextParam]_vars

----------------------------------------------------------------------------
(* Properties of one call of Scheduler.schedule(), stated on SpecSched.    *)

\* the call of schedule() that the last step made
Scheduled == last.op = "schedule"

SharedChannels(t1, t2) == Range(keys(t1)) \cap Range(keys(t2))

\* the positions of the calls that task t received
CallsTo(calls, t) == {i \in 1..Len(calls) : calls[i].task = t}

\* the running and stopped lists before the i-th call, rebuilt from the
\* lists at the entry of schedule() and from the calls issued before
RECURSIVE RunningBefore(_, _, _)
RunningBefore(calls, i, run) ==
    IF i <= 1 THEN run
    ELSE LET before == RunningBefore(calls, i - 1, run)
             c      == calls[i - 1]
         IN IF c.op = "stop" THEN Remove(before, c.task)
            ELSE Append(before, c.task)

RECURSIVE StoppedBefore(_, _, _)
StoppedBefore(calls, i, stp) ==
    IF i <= 1 THEN stp
    ELSE LET before == StoppedBefore(calls, i - 1, stp)
             c      == calls[i - 1]
         IN IF c.op = "stop" THEN Append(before, c.task)
            ELSE Remove(before, c.task)

\* C1: at the end of a call of schedule() on a scheduler that is not on
\* pause, no two tasks of the running list have keys that share a channel,
\* whether their keys lists are equal or only overlap.
C1_NoSharedChannelRunning ==
    Scheduled =>
        \A i, j \in 1..Len(last.sch.running) :
            i # j => SharedChannels(last.sch.running[i],
                                    last.sch.running[j]) = {}

\* C2: in a call of schedule(), stop() is only called on tasks whose
\* is_stoppable() is true, whichever eviction rule chose them.
C2_OnlyStoppableStopped ==
    Scheduled =>
        \A i \in 1..Len(last.sch.calls) :
            last.sch.calls[i].op = "stop"
                => is_stoppable(last.sch.calls[i].task)

\* C3: in a call of schedule(), a task receives at most one call among
\* start() and stop().
C3_AtMostOneCallPerTask ==
    Scheduled =>
        \A t \in Tasks : Cardinality(CallsTo(last.sch.calls, t)) <= 1

\* C4: in a call of schedule(), start() is only called on tasks whose
\* is_runnable() is true in that cycle, the tasks that the eviction sweep
\* moved to the stopped list included.
C4_OnlyRunnableStarted ==
    Scheduled =>
        \A i \in 1..Len(last.sch.calls) :
            last.sch.calls[i].op = "start"
                => is_runnable(last.sch.calls[i].task)

\* C4, its case: the eviction sweep stopped a task that is not runnable, and
\* at the end of the admission sweep this task is an eligible candidate that
\* only its is_runnable() answer keeps from being started.
C4_UnrunnableCandidate ==
    /\ Scheduled
    /\ \E t \in Tasks :
          LET sch      == last.sch
              eligible == eligible_tasks(sch.running, sch.stopped)
          IN /\ ~is_runnable(t)
             /\ \E i \in 1..Len(sch.calls) :
                   sch.calls[i].op = "stop" /\ sch.calls[i].task = t
             /\ \E i \in 1..Len(sch.calls) : sch.calls[i].op = "start"
             /\ InSeq(t, eligible)
             /\ meet_running_criteria(
                    t, available_for(window, t, sch.running, eligible), 0)
             /\ (AtLeastMeanPriority(t, sch.running) \/ auto_adjust(t))

\* C10: every start() of the admission sweep follows a call of the task's
\* meet_running_criteria(ratio) that returned true, where ratio is
\* available_for(task, ignore = the eligible tasks, minimum = the running
\* tasks) on the latest record of the window, the lists being those of that
\* pass of the sweep.
C10_StartMeetsCriteria ==
    Scheduled =>
        \A i \in 1..Len(last.sch.calls) :
            LET c   == last.sch.calls[i]
                run == RunningBefore(last.sch.calls, i, running(uris))
                stp == StoppedBefore(last.sch.calls, i, stopped(uris))
            IN c.op = "start" =>
                  /\ c.ratio = available_for(window, c.task, run,
                                             eligible_tasks(run, stp))
                  /\ meet_running_criteria(c.task, c.ratio, 0)

\* C10, its case: a task was started while another eligible task was drawing
\* power on the latest record and a task was already running, so that both
\* the ignore list and the minimum list change the ratio.
C10_StartWithIgnoredAndMinimum ==
    /\ Scheduled
    /\ \E i \in 1..Len(last.sch.calls) :
          LET c == last.sch.calls[i]
          IN /\ c.op = "start"
             /\ c.running # <<>>
             /\ c.ratio # available_for(window, c.task, c.running, <<>>)
             /\ c.ratio # available_for(window, c.task, <<>>, c.eligible)

\* the lists at the entry of schedule()
Running0 == running(uris)
Stopped0 == stopped(uris)
Adjustable0 == adjustable(Running0)

\* the victims of the four eviction rules at the entry of schedule()
VictimsA == find_conflicting_power_keys(Running0)
VictimsB == find_failing_criteria(window, Running0, Adjustable0)
VictimsC == find_dimishing_adjustable(Running0, Adjustable0)
VictimsD == find_lower_priority_tasks(window, Running0, Stopped0, Adjustable0)

\* the victims of the first rule that has some
FirstVictims ==
    LET run == Running0
        adj == adjustable(run)
        a   == find_conflicting_power_keys(run)
        b   == find_failing_criteria(window, run, adj)
        c   == find_dimishing_adjustable(run, adj)
    IN IF run = <<>> THEN <<>>
       ELSE IF a # <<>> THEN a
       ELSE IF b # <<>> THEN b
       ELSE IF c # <<>> THEN c
       ELSE find_lower_priority_tasks(window, run, Stopped0, adj)

\* the tasks that were sent stop(), in the order of the calls
RECURSIVE StopsOf(_)
StopsOf(calls) ==
    IF calls = <<>> THEN <<>>
    ELSE IF Head(calls).op = "stop"
         THEN <<Head(calls).task>> \o StopsOf(Tail(calls))
         ELSE StopsOf(Tail(calls))

IsPrefix(p, s) == Len(p) <= Len(s) /\ p = SubSeq(s, 1, Len(p))

\* C11: in a call of schedule() every stop() comes before every start(), and
\* the tasks stopped are the victims of the first of the rules key conflict,
\* failing criteria, diminishing auto-adjust, preemption that has victims,
\* and of no other rule (all of them, unless an exception ends the call).
C11_EvictionThenAdmission ==
    Scheduled =>
        LET calls   == last.sch.calls
            stops   == StopsOf(calls)
            victims == FirstVictims
        IN /\ \A i, j \in 1..Len(calls) :
                 (i < j /\ calls[j].op = "stop") => calls[i].op = "stop"
           /\ IsPrefix(stops, victims)
           /\ last.sch.exc = "none" => stops = victims

\* C11, its case: two rules had different victims, the victim of the first
\* one was stopped and a task was started afterwards.
C11_TwoRulesHadVictims ==
    /\ Scheduled
    /\ VictimsA = <<>> /\ VictimsB # <<>> /\ VictimsD # <<>>
    /\ VictimsD # VictimsB
    /\ \E i, j \in 1..Len(last.sch.calls) :
          /\ i < j
          /\ last.sch.calls[i].op = "stop"
          /\ last.sch.calls[j].op = "start"

\* the call c was issued
Issued(calls, c) ==
    \E i \in 1..Len(calls) : calls[i].op = c.op /\ calls[i].task = c.task

\* the stopped task on behalf of which the preemption rule acts: the first
\* one, in the order of the stopped list, that has challengers and accepts
\* the power they would free; <<>> if there is none
RECURSIVE PreemptorFrom(_)
PreemptorFrom(stp) ==
    IF stp = <<>> THEN <<>>
    ELSE LET s == Head(stp)
             challengers == SelectSeq(Running0,
                                LAMBDA c : compare_task(s, c) > 0
                                           /\ is_stoppable(c))
             minimum == SelectSeq(Adjustable0,
                                  LAMBDA a : ~InSeq(a, challengers))
         IN IF challengers # <<>>
               /\ meet_running_criteria(
                      s, available_for(window, s, minimum, challengers), 0)
            THEN <<s>>
            ELSE PreemptorFrom(Tail(stp))

\* C13: when the preemption rule stops running tasks on behalf of a stopped
\* task, this task is sent start() by the admission sweep of the same call
\* of schedule().
C13_PreemptorStarted ==
    (Scheduled /\ last.sch.rule = "d" /\ last.sch.exc = "none")
        => \A i \in 1..Len(PreemptorFrom(Stopped0)) :
              Issued(last.sch.calls,
                     [op |-> "start", task |-> PreemptorFrom(Stopped0)[i]])

\* task v is strictly less important than task s
LessImportant(v, s) ==
    \/ priority(v) < priority(s)
    \/ /\ priority(v) = priority(s)
       /\ \/ ~auto_adjust(v) /\ auto_adjust(s)
          \/ auto_adjust(v) = auto_adjust(s) /\ power(v) < power(s)

\* s is a stopped runnable task whose challengers are the tasks of victims
\* and which accepts the power available once they are ignored
PreemptsFor(s, victims) ==
    LET minimum == SelectSeq(Adjustable0, LAMBDA a : ~InSeq(a, victims))
    IN /\ InSeq(s, uris) /\ is_runnable(s) /\ ~is_running(s)
       /\ \A i \in 1..Len(victims) :
             /\ InSeq(victims[i], Running0)
             /\ is_stoppable(victims[i])
             /\ LessImportant(victims[i], s)
       /\ meet_running_criteria(
              s, available_for(window, s, minimum, victims), 0)

\* C14: the tasks that the preemption rule stops are running and stoppable
\* tasks that are strictly less important than one stopped runnable task s
\* (lower priority, else not adjustable against adjustable, else lower
\* power, never a tie), and s accepts the ratio available_for(s, ignore =
\* challengers, minimum = adjustable tasks that are not challengers).
C14_PreemptionVictims ==
    (Scheduled /\ last.sch.rule = "d")
        => /\ StopsOf(last.sch.calls) # <<>>
           /\ \E s \in Tasks : PreemptsFor(s, StopsOf(last.sch.calls))

\* C14, its case: the preemption rule acted while a stoppable running task
\* was exactly as important as the stopped task it acted for, and this task
\* was left running.
C14_TieLeftRunning ==
    /\ Scheduled /\ last.sch.rule = "d"
    /\ \E s \in Tasks, r \in Range(Running0) :
          /\ PreemptsFor(s, StopsOf(last.sch.calls))
          /\ is_stoppable(r)
          /\ compare_task(s, r) = 0
          /\ ~InSeq(r, StopsOf(last.sch.calls))

\* the running task t refuses its coverage over the window and is stoppable
FailsAndStoppable(t) ==
    /\ ~meet_running_criteria(
           t, covered_by_production(window, t, Adjustable0),
           power_used_by(window, t))
    /\ is_stoppable(t)

IndexIn(s, x) == CHOOSE i \in 1..Len(s) : s[i] = x

\* task u is examined before task t by the failing-criteria rule
ExaminedBefore(u, t) ==
    \/ priority(u) < priority(t)
    \/ /\ priority(u) = priority(t)
       /\ IndexIn(Running0, u) < IndexIn(Running0, t)

\* C15: when the key-conflict rule has no victim and some running task
\* refuses the ratio covered_by_production(t, minimize = adjustable) with
\* power_used_by(t) while it is stoppable, schedule() stops exactly one task:
\* the first such task in ascending priority order.
C15_FirstFailingStopped ==
    (/\ Scheduled
     /\ VictimsA = <<>>
     /\ \E t \in Range(Running0) : FailsAndStoppable(t))
        => \E t \in Range(Running0) :
              /\ StopsOf(last.sch.calls) = <<t>>
              /\ last.sch.rule = "b"
              /\ FailsAndStoppable(t)
              /\ \A u \in Range(Running0) :
                    (u # t /\ ExaminedBefore(u, t)) => ~FailsAndStoppable(u)

\* C15, its case: two running tasks of different priorities refused their
\* coverage while stoppable, and one task was stopped.
C15_TwoFailingTasks ==
    /\ Scheduled /\ last.sch.rule = "b"
    /\ Len(StopsOf(last.sch.calls)) = 1
    /\ \E t, u \in Range(Running0) :
          /\ priority(t) # priority(u)
          /\ FailsAndStoppable(t) /\ FailsAndStoppable(u)

\* the running tasks that diminish the adjustable ones: not adjustable,
\* stoppable, of a priority strictly below the highest priority of the
\* running adjustable tasks
Diminishing ==
    {t \in Range(Running0) :
        /\ ~auto_adjust(t)
        /\ is_stoppable(t)
        /\ \E a \in Range(Adjustable0) : priority(t) < priority(a)}

BelowAdjustable ==
    {t \in Range(Running0) :
        /\ ~auto_adjust(t)
        /\ \E a \in Range(Adjustable0) : priority(t) < priority(a)}

StartedBefore(calls, i) ==
    {calls[k].task : k \in {n \in 1..(i - 1) : calls[n].op = "start"}}

\* C17: the admission sweep sends start() to a task only if the task is
\* auto-adjust or its priority is at least the mean priority of the tasks
\* of the running list at that pass, the tasks started earlier in the sweep
\* included (any priority when nothing runs).
C17_StartAtLeastMeanPriority ==
    Scheduled =>
        \A i \in 1..Len(last.sch.calls) :
            LET c   == last.sch.calls[i]
                run == RunningBefore(last.sch.calls, i, Running0)
            IN c.op = "start" =>
                  \/ auto_adjust(c.task)
                  \/ priority(c.task) * Len(run)
                        >= SumSeq([k \in 1..Len(run) |-> priority(run[k])])

\* C17, its case: a task that is not auto-adjust was started after another
\* task had been started in the same sweep.
C17_StartedAfterAnotherStart ==
    /\ Scheduled
    /\ \E i \in 1..Len(last.sch.calls) :
          /\ last.sch.calls[i].op = "start"
          /\ ~auto_adjust(last.sch.calls[i].task)
          /\ StartedBefore(last.sch.calls, i) # {}

\* two ratios <<numerator, denominator>> are equal
SameRatio(r, e) == r[1] * e[2] = e[1] * r[2]

\* max(0, -(N - U) / U) where N and U are the sums of the rewritten net and
\* of the usage of task t over the records of the longest tail of window w
\* in which t draws power, each record being taken once
covered_counting_once(w, t, minimized) ==
    LET records == TailWhileUsing(w, Len(w), keys(t))
        acc0    == [k \in DOMAIN w[Len(w)] |-> 0]
        used    == Reduce(records, acc0, minimized)
        total   == usage(used, keys(t))
    IN <<Max(0, -(used["net"] - total)), total>>

\* C19: for a running task that draws power in the latest record, the ratio
\* covered_by_production(task, minimize = adjustable) that the failing
\* criteria rule of schedule() computes is max(0, -(N - U) / U)
\* with N and U summed over the longest tail of the window in which the
\* task draws power, each record counted exactly once.
C19_EachRecordCountedOnce ==
    \A t \in Range(Running0) :
        (/\ Scheduled /\ VictimsA = <<>>
         /\ usage(window[Len(window)], keys(t)) > 0)
            => SameRatio(covered_by_production(window, t, Adjustable0),
                         covered_counting_once(window, t, Adjustable0))

\* the tasks of the list ts are distinct and no two of them share a channel
KeysDisjoint(ts) ==
    \A i, j \in 1..Len(ts) :
        i # j => (ts[i] # ts[j] /\ SharedChannels(ts[i], ts[j]) = {})

\* the net of the record once the usage of each task of minimum is replaced
\* by its declared power and the usage of each task of ignore is removed
RewrittenNet(record, minimum, ignore) ==
    record["net"]
    - SumSeq([i \in 1..Len(minimum) |->
                 usage(record, keys(minimum[i])) - power(minimum[i])])
    - SumSeq([i \in 1..Len(ignore) |-> usage(record, keys(ignore[i]))])

\* the record {net: -3.0, solar: -5.0, wh: 0, other: 2.0}, the channel of
\* the third load standing for wh
ExampleRecord == [net |-> -60, solar |-> -100, pool |-> 0, other |-> 40]

\* C20: available_for(task, minimum, ignore) is max(0, -net' / task.power)
\* where net' is the net of the latest record after the usage of each task
\* of minimum was replaced by its declared power and the usage of each task
\* of ignore was removed (tasks metered on distinct channels); on the record
\* {net: -3.0, solar: -5.0, wh: 0, other: 2.0} a task of power 2.0 that is
\* ignored gets 1.5.
C20_AvailableFor ==
    /\ Scheduled =>
          LET minimum == Running0
              ignore  == eligible_tasks(minimum, Stopped0)
              net     == RewrittenNet(window[Len(window)], minimum, ignore)
          IN KeysDisjoint(minimum \o ignore) =>
                \A t \in Range(ignore) :
                    available_for(window, t, minimum, ignore)
                    = <<Max(0, -net), power(t)>>
    /\ (keys("load") = <<"pool">> /\ power("load") = 40)
          => SameRatio(available_for(<<ExampleRecord>>, "load",
                                     <<>>, <<"load">>),
                       <<3, 2>>)

\* C20, its case: no task was stopped and the admission sweep computed a
\* ratio above 0 for its first candidate while a running task was drawing
\* another power than its declared one and an eligible task was drawing
\* power, all metered on distinct channels.
C20_RatioFromRewrittenNet ==
    /\ Scheduled
    /\ last.sch.exc = "none" /\ StopsOf(last.sch.calls) = <<>>
    /\ LET minimum == Running0
           ignore  == eligible_tasks(Running0, Stopped0)
           record  == window[Len(window)]
       IN /\ ignore # <<>>
          /\ KeysDisjoint(minimum \o ignore)
          /\ \E r \in Range(minimum) : usage(record, keys(r)) # power(r)
          /\ \E e \in Range(ignore) : usage(record, keys(e)) > 0
          /\ available_for(window, ignore[1], minimum, ignore)[1] > 0

----------------------------------------------------------------------------
(* Properties of the main loop, stated on Spec.                            *)

\* the last step was a cycle of the main loop
Cycled == last.op = "cycle"

\* the last step was a cycle that called stop_all() and then pause()
AutoPaused == Cycled /\ last.stop_all /\ is_on_pause

\* the registered tasks whose is_running() is true
RunningTasks == {t \in Range(uris) : is_running(t)}

\* every running task was sent stop() exactly once, and no other task was
ExactlyOneStopEach(calls) ==
    \A t \in Tasks :
        Cardinality(CallsTo(calls, t)) = (IF t \in RunningTasks THEN 1 ELSE 0)

C6_PausedOnFourthEmptyCycle ==
    (Cycled /\ ~crashed /\ outage.cycles = MaxRecordGap + 1)
        => (is_on_pause /\ (last.stop_all \/ last.was_on_pause))

\* C7: the first cycle that obtains a record after an automatic pause clears
\* the window before the record is ingested and resumes the scheduler: the
\* schedule() of that cycle sees a window made of this record alone.
C7_FirstRecordAfterPauseSeenAlone ==
    (Cycled /\ ~crashed /\ last.after_pause /\ last.record # <<>>)
        => /\ ~is_on_pause
           /\ last.scheduled
           /\ last.seen = update(<<>>, last.record[1])

\* C8: when a remote call to a task fails during schedule() with a
\* communication error or a RuntimeError, the stop() and start() calls that
\* the rules issue to the other tasks, the failing task being skipped, are
\* still issued.
C8_OtherTasksStillServed ==
    (/\ Cycled
     /\ last.scheduled
     /\ last.sch.exc \in {"CommunicationError", "RuntimeError"}
     /\ InSeq(failing.task, uris))
        => LET others == schedule(Remove(uris, failing.task), window).calls
           IN \A i \in 1..Len(others) : Issued(last.sch.calls, others[i])

\* C9: no exception leaves a cycle of the main loop, whether it is raised by
\* stop_all(), by sanitize() or by schedule(): the loop goes on to the next
\* cycle.
C9_NoExceptionEscapes == ~crashed

C18_FailedProbesUnregister ==
    (/\ Cycled /\ ~crashed
     /\ last.record # <<>>
     /\ failing.mode \in {"down", "is_running"})
        => ~InSeq(failing.task, uris)

\* C23: a resume from paused mode through the remote resume() call has the
\* same effect on the window as the automatic resume: the cycle that follows
\* it and obtains a record clears the window before the record is ingested,
\* so that its schedule() sees a window made of this record alone.
C23_RemoteResumeClearsWindow ==
    (Cycled /\ ~crashed /\ last.after_resume /\ last.record # <<>>)
        => last.seen = update(<<>>, last.record[1])

----------------------------------------------------------------------------
(* Claims checked on SpecWindow *)

\* the task usage covered_by_production() divides by: the usage of the
\* task summed over the records it reduces, once they are rewritten
AccumulatedUsage(w, t, minimized) ==
    LET reduced == <<w[Len(w)]>> \o TailWhileUsing(w, Len(w), keys(t))
        acc0    == [k \in DOMAIN reduced[1] |-> 0]
    IN usage(Reduce(reduced, acc0, minimized), keys(t))

\* C21: both window queries return 1 when their denominator is zero:
\* covered_by_production when the accumulated usage of the task is zero,
\* available_for when the power of the task is zero.
C21_ZeroDenominatorGivesOne ==
    /\ (last.op = "available_for" /\ power(last.task) = 0)
          => last.result = <<1, 1>>
    /\ (last.op = "covered_by_production"
         /\ AccumulatedUsage(window, last.task, last.minimize) = 0)
          => last.result = <<1, 1>>

\* the sum over the keys of a task of the channels of a raw record, a value
\* in the open interval (0, threshold) and an absent key counting as 0
RECURSIVE SumOfChannels(_, _)
SumOfChannels(record, ks) ==
    IF ks = <<>> THEN 0
    ELSE (IF Head(ks) \notin DOMAIN record THEN 0
          ELSE IF 0 < record[Head(ks)]
                  /\ record[Head(ks)] < IgnorePowerThreshold THEN 0
          ELSE record[Head(ks)])
         + SumOfChannels(record, Tail(ks))

\* C22: update(r) followed by power_used_by(t) returns the sum over t.keys
\* of the channels of r, where a value in (0, threshold) counts as 0 and a
\* key absent from r counts as 0.
C22_PowerUsedAfterUpdate ==
    last.op = "update" =>
        \A t \in Tasks : last.used[t] = SumOfChannels(last.record, keys(t))

\* C22 witness: a record was just ingested in which one channel of the HVAC
\* reports a value under the threshold and the other a larger one, and the
\* channel of the third load is absent or under the threshold.
C22_NoisyAndAbsentChannels ==
    /\ last.op = "update"
    /\ last.record["air handler"] \in 1..(IgnorePowerThreshold - 1)
    /\ last.record["A/C"] >= IgnorePowerThreshold
    /\ keys("load") = <<"pool">>
    /\ ("pool" \notin DOMAIN last.record \/ last.record["pool"] = 1)
    /\ last.used["hvac"] = last.record["A/C"]
    /\ last.used["load"] = 0

----------------------------------------------------------------------------
(* Claims checked on SpecCharger *)

\* the last step was a call of meet_running_criteria()
Asked == last.op = "meet_running_criteria"

\* C24, as amended: CarChargerTask.meet_running_criteria(r, p) returns
\* false when the charger is not runnable (not plugged in, or at its maximum
\* state of charge); when it is runnable it returns (r >= 0.9) if the
\* charger is charging and (r >= 1.0) if it is not.
C24_RunnableAndRatio ==
    Asked =>
        last.result =
            (/\ car_charger.status_id \notin {"UNPLUGGED", "FULLY_CHARGED"}
             /\ car_charger.state_of_charge < max_state_of_charge
             /\ IF car_charger.status_id = "CHARGING"
                THEN last.ratio[1] * 10 >= 9 * last.ratio[2]
                ELSE last.ratio[1] >= last.ratio[2])

\* C24, its case: a charger that is charging at its maximum state of charge
\* was asked with a ratio of 0.9 or more, and refused.
C24_ChargingAtMaximumRefused ==
    /\ Asked
    /\ car_charger.status_id = "CHARGING"
    /\ car_charger.state_of_charge >= max_state_of_charge
    /\ RatioGE(last.ratio, 9)
    /\ ~last.result

\* C24, as stated: in every charger state, meet_running_criteria(r, p)
\* returns (r >= 0.9) when the charger is running and (r >= 1.0) when it is
\* not running.
C24_RatioOnly ==
    Asked =>
        last.result =
            (IF car_charger.status_id = "CHARGING"
             THEN last.ratio[1] * 10 >= 9 * last.ratio[2]
             ELSE last.ratio[1] >= last.ratio[2])

----------------------------------------------------------------------------
(* Claims checked on SpecWaterHeater *)

\* C25: WaterHeater.is_stoppable() is true if and only if the water heater
\* has been running for at least min_run_time, in every state of the task
\* (cooldown and target reached included).  Stated for the states in which
\* the water heater is running.
C25_StoppableIffRanMinRunTime ==
    (last.op = "is_stoppable" /\ heater_is_running(water_heater)) =>
        (last.result <=> water_heater.running_for >= heater_min_run_time)

\* C26: whenever is_stoppable() returns true and stop() is then executed,
\* is_running() returns false afterwards, in the boost mode and in the
\* setpoint mode.
C26_StopTakesEffect ==
    (last.op = "stop" /\ last.stoppable /\ last.running)
        => ~heater_is_running(water_heater)

\* C27: WaterHeater.meet_running_criteria accepts a ratio below 1.0 only
\* when the priority is URGENT and the current time is before target_time
\* by less than the estimated run time; with a target_time that is past or
\* was never set it requires a ratio of 1.0 or more.
C27_BelowOneOnlyBeforeTarget ==
    (Asked /\ last.result /\ ~RatioGE(last.ratio, 10))
        => /\ water_heater.priority = URGENT
           /\ water_heater.target_time >= 0
           /\ water_heater.target_time < estimate_run_time(water_heater)

----------------------------------------------------------------------------
(* Claims checked on SpecPoolPump *)

\* C28: PoolPump.meet_running_criteria returns false when the pump has been
\* running past the grace period (2 minutes) and the reported power is not
\* above the floor (0.2 kW), marking the pump unhealthy.
C28_RefusesWithoutPower ==
    (Asked /\ last.exc = "none"
           /\ last.duration > GracePeriod /\ last.power <= PowerFloor)
        => (last.result = FALSE /\ ~pool_pump.healthy)

\* C29: after the pool pump marked itself unhealthy, the next iteration of
\* its control loop calls unregister_task on the scheduler and issues its
\* own stop(), and it does not call register_task.
C29_UnhealthyUnregistersAndStops ==
    (last.op = "loop" /\ ~last.healthy)
        => /\ InSeq("unregister_task", last.calls)
           /\ InSeq("stop", last.calls)
           /\ ~InSeq("register_task", last.calls)

----------------------------------------------------------------------------
(* Claims checked on SpecHVAC *)

\* C30: HVACTask.is_stoppable() returns false during the whole minimum run
\* time of a run, however that run began and whatever earlier start() and
\* stop() calls succeeded or failed.
C30_NotStoppableDuringMinRunTime ==
    (last.op = "is_stoppable" /\ last.run # Unset
                              /\ last.run <= hvac_min_run_time)
        => ~last.result

----------------------------------------------------------------------------
(* Further claims checked on SpecSched *)

\* s is in ascending order of importance per compare_task
Ascending(s) ==
    \A i, j \in 1..Len(s) : i < j => compare_task(s[i], s[j]) <= 0

\* s is in descending order of importance per compare_task
Descending(s) ==
    \A i, j \in 1..Len(s) : i < j => compare_task(s[i], s[j]) >= 0

\* C31: throughout schedule() the running list is in ascending order of
\* importance and the stopped list in descending order, also after the
\* eviction sweep moved its victims to stopped and after the admission
\* sweep moved a task to running; hence the candidates of every admission
\* pass are examined in descending order of importance.
C31_ListsStaySorted ==
    Scheduled =>
        LET calls == last.sch.calls
        IN /\ Ascending(last.sch.running)
           /\ Descending(last.sch.stopped)
           /\ \A i \in 1..Len(calls) :
                 /\ Ascending(RunningBefore(calls, i, Running0))
                 /\ Descending(StoppedBefore(calls, i, Stopped0))
                 /\ calls[i].op = "start" => Descending(calls[i].eligible)

----------------------------------------------------------------------------
(* Further claims checked on SpecWaterHeater *)

\* C32: WaterHeater.stop() does nothing, the mode of the device is left as
\* it was, when the water heater is running and has not yet been running
\* for min_run_time.
C32_StopWithinMinRunTimeDoesNothing ==
    (last.op = "stop" /\ last.running
                      /\ last.running_for < heater_min_run_time)
        => water_heater.mode = last.mode

----------------------------------------------------------------------------
(* Further claims checked on SpecPoolPump *)

\* C33: PoolPump.remaining_runtime is decreased only by the time during
\* which the pump was actually running since the last update, it is never
\* negative after update_remaining_runtime(), and once it is zero
\* is_runnable() is false until the next configuration of the cycle.
C33_RemainingRuntimeCountsRunningTime ==
    /\ last.op = "loop" =>
          /\ last.before - last.after <= last.ran
          /\ last.updated => last.after >= 0
          /\ last.after = 0 => ~last.runnable
    /\ pool_pump.remaining_runtime = 0 => ~pump_is_runnable(pool_pump)

----------------------------------------------------------------------------
(* Claims checked on SpecParam *)

\* C34: the control thread never sees planner outputs of different updates
\* mixed together while the parameter thread runs: target_temp is the
\* passive curve evaluated at the target time of one consistent snapshot,
\* and every read or write of the shared planner data is made with the
\* lock held.
C34_ConsistentSnapshot ==
    /\ last.op = "target_temp" => last.curve = last.time
    /\ last.op \in {"read", "write", "target_temp"} => last.locked

----------------------------------------------------------------------------
(* Further claims checked on Spec *)

\* C35: a pause set by the remote pause() call is ended only by a remote
\* resume() call: whatever the interleaving of remote pause() and resume()
\* calls with outages and recoveries, the main loop resumes the scheduler
\* and clears the window only for a pause that it entered itself and that
\* is still in effect.
C35_MainResumesOwnPauseOnly ==
    (Cycled /\ last.cleared) => last.paused_by = "main"

\* C36: once the pool pump is marked unhealthy and its control loop has
\* unregistered it, the control loop does not register it again: healthy is
\* set again only inside start() and meet_running_criteria(), so the pump
\* stays unhealthy and unregistered through every step that is not one of
\* these two calls.
C36_StaysUnregisteredWhileUnhealthy ==
    [][(/\ ~pool_pump.healthy
        /\ ~pool_pump.registered
        /\ last'.op \notin {"start", "meet_running_criteria"})
          => (~pool_pump'.healthy /\ ~pool_pump'.registered)]_vars

\* C36, witness: an iteration of the control loop found the pump unhealthy
\* and already unregistered, and left it so
C36_LoopOnUnregisteredPump ==
    /\ last.op = "loop"
    /\ ~last.healthy
    /\ ~last.registered
    /\ ~pool_pump.registered
    /\ last.calls = <<"unregister_task", "stop">>

----------------------------------------------------------------------------
(* Claims checked on SpecCache *)

\* C37: within one call of schedule() each derived list (tasks, runnable,
\* running, adjustable, stopped) is computed from the remote tasks at most
\* once, and the running and stopped lists as the eviction sweep updated
\* them are the ones the admission sweep reads, however long the remote
\* calls take compared with the lifetime of the cache.
C37_ListsComputedOnce ==
    /\ \A k \in Keys : call.computed[k] <= 1
    /\ (last.op = "elect" /\ last.started = <<>>)
          => (last.running = call.running /\ last.stopped = call.stopped)

----------------------------------------------------------------------------
(* Claims checked on SpecLoop *)

NoDuplicate(U) == \A i, j \in 1..Len(U) : U[i] = U[j] => i = j

\* C38: after an iteration of a task's control loop in which the self-test
\* passed and the scheduler was reachable, the task is registered, whether
\* sanitize() or a failed self-test had removed it or not; and registering
\* again never puts a task twice in the list.
C38_RegisteredAgainByTheLoop ==
    /\ (last.op = "loop" /\ last.passed /\ last.reachable)
          => InSeq(last.task, uris)
    /\ NoDuplicate(uris)

\* C38: a task that was removed is registered again by its loop while the
\* other task is registered
C38_RemovedThenRegistered ==
    /\ last.op = "loop" /\ last.passed /\ last.reachable
    /\ last.was_removed /\ ~last.was_registered
    /\ InSeq(last.task, uris)
    /\ Len(uris) = 2

----------------------------------------------------------------------------
(* Further claims checked on SpecWindow *)

----------------------------------------------------------------------------
(* Further claims checked on SpecCache *)

\* C40: the admission sweep of one call of schedule() starts a task at most
\* once, and makes at most one pass more than there were stopped tasks when
\* it began.
C40_AdmissionSweepBounded ==
    /\ (last.op = "elect" /\ last.elected # <<>>)
          => ~InSeq(last.elected[1], last.started)
    /\ call.candidates # Missing => call.passes <= call.candidates + 1

====
